---- MODULE Spec2Model ----
(***************************************************************************)
(* Model of rust/db_handling/src/identities.rs: the identity catalogue     *)
(* (ADDRTREE), the derivation-and-merge routine create_address, bulk       *)
(* populate, deletion, and the commit of an identity batch together with   *)
(* its history entry.                                                      *)
(*                                                                         *)
(* Text values that the code takes apart (derivation paths) are sequences  *)
(* of one-character strings; text values that the code only compares       *)
(* (seed names, seed phrases, network names) are plain strings.            *)
(***************************************************************************)
EXTENDS Integers, Sequences, FiniteSets, TLC

VARIABLES
    specstree,  \* SPECSTREE: NetworkSpecsKey -> NetworkSpecs (read-only here)
    addrtree,   \* ADDRTREE: AddressKey -> AddressDetails
    history,    \* history tree: one entry (a sequence of events) per commit
    last,       \* the last top-level call: its name, result and arguments
    pending     \* per caller: a call that has staged its batch and not yet applied it

vars == <<specstree, addrtree, history, last, pending>>

(***************************************************************************)
(* Bounds                                                                  *)
(***************************************************************************)
\* Cap on the number of committed history entries (an unbounded log).
MaxOps == 2

\* The same cap where only derivations are issued.
MaxDerive == 3

(***************************************************************************)
(* Small helpers on sequences                                              *)
(***************************************************************************)
Contains(seq, x) == \E i \in 1..Len(seq) : seq[i] = x

RemoveAt(seq, i) == SubSeq(seq, 1, i - 1) \o SubSeq(seq, i + 1, Len(seq))

MinOf(S) == CHOOSE x \in S : \A y \in S : x <= y

\* The single element of a one-element set.  { F(x) : x \in {e} } evaluates e
\* once and names its value x.
Only(S) == CHOOSE x \in S : TRUE

NoDuplicates(seq) == \A i, j \in 1..Len(seq) : seq[i] = seq[j] => i = j

(***************************************************************************)
(* 4.A  Derivation-path parser: REG_PATH, the anchored expression          *)
(* "path, then optionally three slashes and a non-empty password", where   *)
(* path is any number of segments, each one or two slashes followed by     *)
(* one or more non-slash characters.                                       *)
(***************************************************************************)
RECURSIVE SegEnd(_, _)
\* Index of the last character of the run of non-slash characters
\* whose first character is s[i].
SegEnd(s, i) ==
    IF i + 1 <= Len(s) /\ s[i + 1] # "/" THEN SegEnd(s, i + 1) ELSE i

RECURSIVE PathEnd(_, _)
\* The path group: number of characters consumed by the greedy repetition,
\* i of them being consumed already.
PathEnd(s, i) ==
    IF i + 2 <= Len(s) /\ s[i + 1] = "/" /\ s[i + 2] # "/"
    THEN PathEnd(s, SegEnd(s, i + 2))
    ELSE IF i + 3 <= Len(s) /\ s[i + 1] = "/" /\ s[i + 2] = "/" /\ s[i + 3] # "/"
         THEN PathEnd(s, SegEnd(s, i + 3))
         ELSE i

\* REG_PATH with the password group as in the key library: `.*`, so that an
\* empty password matches.
REG_PATH_captures_EmptyPassword(s) ==
    LET e    == PathEnd(s, 0)
        rest == SubSeq(s, e + 1, Len(s))
    IN  IF rest = <<>>
        THEN [matched |-> TRUE, path |-> SubSeq(s, 1, e),
              has_password |-> FALSE, password |-> <<>>]
        ELSE IF Len(rest) >= 3 /\ SubSeq(rest, 1, 3) = <<"/", "/", "/">>
             THEN [matched |-> TRUE, path |-> SubSeq(s, 1, e),
                   has_password |-> TRUE, password |-> SubSeq(rest, 4, Len(rest))]
             ELSE [matched |-> FALSE, path |-> <<>>,
                   has_password |-> FALSE, password |-> <<>>]

\* REG_PATH.captures(s): whether the whole string matches, and the groups.
REG_PATH_captures(s) ==
    LET e    == PathEnd(s, 0)
        rest == SubSeq(s, e + 1, Len(s))
    IN  IF rest = <<>>
        THEN [matched |-> TRUE, path |-> SubSeq(s, 1, e),
              has_password |-> FALSE, password |-> <<>>]
        ELSE IF Len(rest) >= 4 /\ SubSeq(rest, 1, 3) = <<"/", "/", "/">>
             THEN [matched |-> TRUE, path |-> SubSeq(s, 1, e),
                   has_password |-> TRUE, password |-> SubSeq(rest, 4, Len(rest))]
             ELSE [matched |-> FALSE, path |-> <<>>,
                   has_password |-> FALSE, password |-> <<>>]

\* create_address: cropped_path is the path group, or "" when there is no match.
CroppedPath(path) ==
    LET caps == REG_PATH_captures(path)
    IN  IF caps.matched THEN caps.path ELSE <<>>

(***************************************************************************)
(* 4.B  Key deriver: Pair::from_string(seed_phrase || path, None)           *)
(***************************************************************************)
SEED == "bottom drive obey lake curtain smoke basket hold race lonely fit walk"

\* Mnemonic::validate(phrase, Language::English)
ValidPhrases == {SEED, "legal winner thank year wave sausage worth useful legal winner thank yellow"}

Mnemonic_validate(phrase) == phrase \in ValidPhrases

Digits == {"0", "1", "2", "3", "4", "5", "6", "7", "8", "9"}

RECURSIVE StripZeros(_)
StripZeros(seg) ==
    IF Len(seg) > 1 /\ seg[1] = "0" THEN StripZeros(Tail(seg)) ELSE seg

\* A junction whose text parses as a number is the number, otherwise its text.
JunctionCode(seg) ==
    IF \A i \in 1..Len(seg) : seg[i] \in Digits THEN StripZeros(seg) ELSE seg

RECURSIVE Junctions(_, _)
\* The junctions of the path group (hard after two slashes, soft after one),
\* i characters being consumed.
Junctions(s, i) ==
    IF i + 2 <= Len(s) /\ s[i + 1] = "/" /\ s[i + 2] # "/"
    THEN <<[hard |-> FALSE, code |-> JunctionCode(SubSeq(s, i + 2, SegEnd(s, i + 2)))]>>
         \o Junctions(s, SegEnd(s, i + 2))
    ELSE IF i + 3 <= Len(s) /\ s[i + 1] = "/" /\ s[i + 2] = "/" /\ s[i + 3] # "/"
         THEN <<[hard |-> TRUE, code |-> JunctionCode(SubSeq(s, i + 3, SegEnd(s, i + 3)))]>>
              \o Junctions(s, SegEnd(s, i + 3))
         ELSE <<>>

\* The secret-string format of the key library: the path as in REG_PATH, then
\* an optional ///password that may be empty.  A missing password and an empty
\* one give the same key.  The public key is the triple that determines it.
Pair_from_string(seed_phrase, path, encryption) ==
    LET e    == PathEnd(path, 0)
        rest == SubSeq(path, e + 1, Len(path))
        fine == /\ Mnemonic_validate(seed_phrase)
                /\ \/ rest = <<>>
                   \/ Len(rest) >= 3 /\ SubSeq(rest, 1, 3) = <<"/", "/", "/">>
    IN  IF fine
        THEN [ok |-> TRUE,
              public |-> [phrase |-> seed_phrase,
                          junctions |-> Junctions(path, 0),
                          password |-> SubSeq(rest, 4, Len(rest))]]
        ELSE [ok |-> FALSE,
              public |-> [phrase |-> "", junctions |-> <<>>, password |-> <<>>]]

(***************************************************************************)
(* Keys and records                                                        *)
(***************************************************************************)
\* The three schemes, in the order addresses_three_encryptions visits them.
Encryptions == <<"Ed25519", "Sr25519", "Ecdsa">>

\* The scheme tag: the position in the key bytes that orders SPECSTREE.
EncryptionTag(encryption) ==
    CHOOSE i \in 1..Len(Encryptions) : Encryptions[i] = encryption

\* NetworkSpecsKey::from_parts(genesis_hash, encryption)
NetworkSpecsKey_from_parts(genesis_hash, encryption) ==
    [encryption |-> encryption, genesis_hash |-> genesis_hash]

\* AddressKey::from_multisigner(MultiSigner::<scheme>(public))
AddressKey_from_multisigner(encryption, public_key) ==
    [encryption |-> encryption, public_key |-> public_key]

\* IdentityHistory::get(seed_name, encryption, public_key, path, genesis_hash)
IdentityHistory_get(seed_name, encryption, public_key, path, genesis_hash) ==
    [seed_name |-> seed_name, encryption |-> encryption, public_key |-> public_key,
     path |-> path, network_genesis_hash |-> genesis_hash]

Event_IdentityAdded(identity_history) ==
    [event |-> "identity_added", payload |-> identity_history]

Event_IdentityRemoved(identity_history) ==
    [event |-> "identity_removed", payload |-> identity_history]

(***************************************************************************)
(* 4.C  Derivation-and-merge: create_address                               *)
(***************************************************************************)
\* Result values of the staging routines.
Staged(batch_prep, events) ==
    [ok |-> TRUE, err |-> "", batch_prep |-> batch_prep, events |-> events]

Failed(err) ==
    [ok |-> FALSE, err |-> err, batch_prep |-> <<>>, events |-> <<>>]

\* NumberInCurrent with the staged list never consulted.
NumberInCurrent_Never(batch_prep, address_key, network_specs_key) == 0

\* The loop over output_batch_prep: the first entry with the same address key
\* whose network_id lacks the network (0 stands for None).
NumberInCurrent(batch_prep, address_key, network_specs_key) ==
    LET hits == {i \in 1..Len(batch_prep) :
                    /\ batch_prep[i][1] = address_key
                    /\ ~Contains(batch_prep[i][2].network_id, network_specs_key)}
    IN  IF hits = {} THEN 0 ELSE MinOf(hits)

\* MergePersisted with the persisted record replaced instead of extended.
MergePersisted_Overwrite(database, batch_prep, events, address_key, network_specs_key, path, cropped_path, seed_object, has_pwd) ==
    IF address_key \in DOMAIN database /\ database[address_key].path # path
    THEN Failed("KeyCollision")
    ELSE IF address_key \in DOMAIN database
            /\ Contains(database[address_key].network_id, network_specs_key)
         THEN Staged(batch_prep, events)
         ELSE Staged(Append(batch_prep,
                         <<address_key,
                           [seed_name  |-> seed_object.seed_name,
                            path       |-> cropped_path,
                            has_pwd    |-> has_pwd,
                            network_id |-> <<network_specs_key>>,
                            encryption |-> seed_object.encryption]>>),
                     events)

\* MergePersisted with the network pushed without the membership test.
MergePersisted_NoMembershipTest(database, batch_prep, events, address_key, network_specs_key, path, cropped_path, seed_object, has_pwd) ==
    IF address_key \in DOMAIN database
    THEN IF database[address_key].path # path
         THEN Failed("KeyCollision")
         ELSE Staged(Append(batch_prep,
                         <<address_key,
                           [database[address_key] EXCEPT
                               !.network_id = Append(@, network_specs_key)]>>),
                     events)
    ELSE Staged(Append(batch_prep,
                    <<address_key,
                      [seed_name  |-> seed_object.seed_name,
                       path       |-> cropped_path,
                       has_pwd    |-> has_pwd,
                       network_id |-> <<network_specs_key>>,
                       encryption |-> seed_object.encryption]>>),
                events)

\* The arm taken when no staged entry is to be extended: the key is looked up
\* in ADDRTREE.
MergePersisted(database, batch_prep, events, address_key, network_specs_key, path, cropped_path, seed_object, has_pwd) ==
    IF address_key \in DOMAIN database
    THEN LET address_details == database[address_key]
         IN  IF address_details.path # path
             THEN Failed("KeyCollision")
             ELSE IF ~Contains(address_details.network_id, network_specs_key)
                  THEN Staged(Append(batch_prep,
                                <<address_key,
                                  [address_details EXCEPT
                                      !.network_id = Append(@, network_specs_key)]>>),
                              events)
                  ELSE Staged(batch_prep, events)
    ELSE Staged(Append(batch_prep,
                    <<address_key,
                      [seed_name  |-> seed_object.seed_name,
                       path       |-> cropped_path,
                       has_pwd    |-> has_pwd,
                       network_id |-> <<network_specs_key>>,
                       encryption |-> seed_object.encryption]>>),
                events)

\* create_address deriving whatever the scheme of the network is.
create_address_NoSchemeTest(database, input_batch_prep, input_events, path, network_specs, seed_object, has_pwd, specs_encryption_skip) ==
    LET network_specs_key ==
            NetworkSpecsKey_from_parts(network_specs.genesis_hash, network_specs.encryption)
    IN  Only({
            IF ~pair.ok
            THEN Failed("SecretString")
            ELSE
            LET public_key    == pair.public
                address_key   == AddressKey_from_multisigner(seed_object.encryption, public_key)
                cropped_path  == CroppedPath(path)
                output_events ==
                    Append(input_events,
                           Event_IdentityAdded(
                               IdentityHistory_get(seed_object.seed_name,
                                                   seed_object.encryption, public_key,
                                                   cropped_path, network_specs.genesis_hash)))
                number_in_current ==
                    NumberInCurrent(input_batch_prep, address_key, network_specs_key)
            IN  IF number_in_current # 0
                THEN LET mod_entry == input_batch_prep[number_in_current]
                     IN  Staged(Append(RemoveAt(input_batch_prep, number_in_current),
                                       <<mod_entry[1],
                                         [mod_entry[2] EXCEPT
                                             !.network_id = Append(@, network_specs_key)]>>),
                                output_events)
                ELSE MergePersisted(database, input_batch_prep, output_events,
                                    address_key, network_specs_key, path, cropped_path,
                                    seed_object, has_pwd)
            : pair \in {Pair_from_string(seed_object.seed_phrase, path,
                                         seed_object.encryption)}})

create_address(database, input_batch_prep, input_events, path, network_specs, seed_object, has_pwd, specs_encryption_skip) ==
    LET network_specs_key ==
            NetworkSpecsKey_from_parts(network_specs.genesis_hash, network_specs.encryption)
    IN  IF network_specs.encryption # seed_object.encryption
        THEN IF specs_encryption_skip
             THEN Staged(input_batch_prep, input_events)
             ELSE Failed("EncryptionMismatch")
        ELSE
        Only({
            IF ~pair.ok
            THEN Failed("SecretString")
            ELSE
            LET public_key    == pair.public
                address_key   == AddressKey_from_multisigner(seed_object.encryption, public_key)
                cropped_path  == CroppedPath(path)
                output_events ==
                    Append(input_events,
                           Event_IdentityAdded(
                               IdentityHistory_get(seed_object.seed_name,
                                                   seed_object.encryption, public_key,
                                                   cropped_path, network_specs.genesis_hash)))
                number_in_current ==
                    NumberInCurrent(input_batch_prep, address_key, network_specs_key)
            IN  IF number_in_current # 0
                THEN LET mod_entry == input_batch_prep[number_in_current]
                     IN  Staged(Append(RemoveAt(input_batch_prep, number_in_current),
                                       <<mod_entry[1],
                                         [mod_entry[2] EXCEPT
                                             !.network_id = Append(@, network_specs_key)]>>),
                                output_events)
                ELSE MergePersisted(database, input_batch_prep, output_events,
                                    address_key, network_specs_key, path, cropped_path,
                                    seed_object, has_pwd)
            : pair \in {Pair_from_string(seed_object.seed_phrase, path,
                                         seed_object.encryption)}})

(***************************************************************************)
(* Batches and the committer                                               *)
(***************************************************************************)
\* A sled Batch: the writes in the order they were made; a later write to a
\* key replaces an earlier one when the batch is applied.
Batch_default == <<>>

Batch_insert(batch, key, value) == Append(batch, [op |-> "insert", key |-> key, value |-> value])

Batch_remove(batch, key) == Append(batch, [op |-> "remove", key |-> key, value |-> <<>>])

RECURSIVE upd_id_batch(_, _)
\* helpers::upd_id_batch: one insert per staged (AddressKey, AddressDetails).
upd_id_batch(batch, adds) ==
    IF adds = <<>> THEN batch
    ELSE upd_id_batch(Batch_insert(batch, adds[1][1], adds[1][2]), Tail(adds))

\* The identity tree after one write of a batch.
ApplyWrite(tree, w) ==
    IF w.op = "insert"
    THEN [k \in DOMAIN tree \cup {w.key} |-> IF k = w.key THEN w.value ELSE tree[k]]
    ELSE [k \in DOMAIN tree \ {w.key} |-> tree[k]]

RECURSIVE ApplyBatch(_, _)
\* The identity tree after the writes of the batch.
ApplyBatch(tree, batch) ==
    IF batch = <<>> THEN tree
    ELSE Only({ApplyBatch(t, Tail(batch)) : t \in {ApplyWrite(tree, batch[1])}})

\* TrDbCold_apply with the two batches written one after the other: a failure
\* after the first leaves the identity batch written without its history.
TrDbCold_apply_Torn(tree, hist, id_batch, events, apply_ok) ==
    IF apply_ok
    THEN [ok |-> TRUE, err |-> "", addrtree |-> ApplyBatch(tree, id_batch),
          history |-> Append(hist, events)]
    ELSE [ok |-> FALSE, err |-> "DbInternal", addrtree |-> ApplyBatch(tree, id_batch),
          history |-> hist]

\* TrDbCold::new().set_addresses(id_batch).set_history(events_to_batch(events))
\* .apply(): both batches in one transaction, or neither when it fails.
TrDbCold_apply(tree, hist, id_batch, events, apply_ok) ==
    IF apply_ok
    THEN [ok |-> TRUE, err |-> "", addrtree |-> ApplyBatch(tree, id_batch),
          history |-> Append(hist, events)]
    ELSE [ok |-> FALSE, err |-> "DbInternal", addrtree |-> tree, history |-> hist]

(***************************************************************************)
(* Bulk populate and seed creation                                         *)
(***************************************************************************)
\* Whether key a sorts before key b in SPECSTREE (scheme tag, then genesis hash).
SpecsKeyLess(a, b) ==
    \/ EncryptionTag(a.encryption) < EncryptionTag(b.encryption)
    \/ a.encryption = b.encryption /\ a.genesis_hash < b.genesis_hash

RECURSIVE SpecsIter_Backwards(_, _)
\* The entries of the keys K read from the last key to the first.
SpecsIter_Backwards(specs, K) ==
    IF K = {} THEN <<>>
    ELSE LET first == CHOOSE k \in K : \A o \in K \ {k} : SpecsKeyLess(o, k)
         IN  <<specs[first]>> \o SpecsIter_Backwards(specs, K \ {first})

RECURSIVE SpecsIter(_, _)
\* chainspecs.iter(): the entries of the keys K of tree specs, in key order.
SpecsIter(specs, K) ==
    IF K = {} THEN <<>>
    ELSE LET first == CHOOSE k \in K : \A o \in K \ {k} : SpecsKeyLess(k, o)
         IN  <<specs[first]>> \o SpecsIter(specs, K \ {first})

\* One pass of the loop of populate_addresses with the failure of the
\* default-path derivation returned like that of the root derivation.
PopulateStep_DefaultFailureReturned(database, network_specs, identity_adds, current_events, seed_object) ==
    Only({
        IF ~root.ok THEN root
        ELSE create_address(database, root.batch_prep, root.events,
                            network_specs.path_id, network_specs, seed_object,
                            FALSE, TRUE)
        : root \in {create_address(database, identity_adds, current_events, <<>>,
                                   network_specs, seed_object, FALSE, TRUE)}})

\* One pass of the loop of populate_addresses: the root derivation, whose
\* failure is returned, then the default-path derivation, whose failure leaves
\* the lists as the root derivation returned them.
PopulateStep(database, network_specs, identity_adds, current_events, seed_object) ==
    Only({
        IF ~root.ok THEN root
        ELSE Only({IF dflt.ok THEN dflt ELSE root :
                   dflt \in {create_address(database, root.batch_prep, root.events,
                                            network_specs.path_id, network_specs,
                                            seed_object, FALSE, TRUE)}})
        : root \in {create_address(database, identity_adds, current_events, <<>>,
                                   network_specs, seed_object, FALSE, TRUE)}})

RECURSIVE PopulateLoop(_, _, _, _, _)
\* The loop of populate_addresses over the network specs still to visit.
PopulateLoop(database, chainspecs, identity_adds, current_events, seed_object) ==
    IF chainspecs = <<>> THEN Staged(identity_adds, current_events)
    ELSE Only({
            IF ~step.ok THEN step
            ELSE PopulateLoop(database, Tail(chainspecs), step.batch_prep, step.events,
                              seed_object)
            : step \in {PopulateStep(database, chainspecs[1], identity_adds,
                                     current_events, seed_object)}})

\* populate_addresses: result [ok, err, batch, events].
populate_addresses(database, specs, entry_batch, seed_object) ==
    Only({
        [ok |-> r.ok, err |-> r.err,
         batch |-> IF r.ok THEN upd_id_batch(entry_batch, r.batch_prep) ELSE <<>>,
         events |-> r.events]
        : r \in {Only({PopulateLoop(database, chainspecs, <<>>, <<>>, seed_object) :
                       chainspecs \in {SpecsIter(specs, DOMAIN specs)}})}})

RECURSIVE ThreeEncryptionsLoop(_, _, _, _, _, _, _)
ThreeEncryptionsLoop(database, specs, seed_name, seed_phrase, i, id_batch, events) ==
    IF i > Len(Encryptions)
    THEN [ok |-> TRUE, err |-> "", batch |-> id_batch, events |-> events]
    ELSE Only({
            IF ~r.ok THEN r
            ELSE ThreeEncryptionsLoop(database, specs, seed_name, seed_phrase, i + 1,
                                      r.batch, events \o r.events)
            : r \in {populate_addresses(database, specs, id_batch,
                                        [seed_name |-> seed_name,
                                         seed_phrase |-> seed_phrase,
                                         encryption |-> Encryptions[i]])}})

addresses_three_encryptions(database, specs, seed_name, seed_phrase) ==
    ThreeEncryptionsLoop(database, specs, seed_name, seed_phrase, 1, Batch_default, <<>>)

(***************************************************************************)
(* Reads of the identity tree                                              *)
(***************************************************************************)
RECURSIVE KeysInOrder(_)
\* identities.iter(): the keys of the tree in the store's order.  The order
\* of public-key bytes is fixed but carries no meaning; it is a fixed
\* enumeration of the key set.
KeysInOrder(K) ==
    IF K = {} THEN <<>>
    ELSE LET first == CHOOSE k \in K : TRUE
         IN  <<first>> \o KeysInOrder(K \ {first})

\* get_all_addresses, as the sequence of address keys read.
get_all_addresses(database) == KeysInOrder(DOMAIN database)

\* get_addresses_by_seed_name
get_addresses_by_seed_name(database, seed_name) ==
    SelectSeq(get_all_addresses(database),
              LAMBDA k : database[k].seed_name = seed_name)

\* get_relevant_identities without the filter on the network.
get_relevant_identities_NoNetworkFilter(database, seed_name, network_specs_key) ==
    IF seed_name = "" THEN get_all_addresses(database)
    ELSE get_addresses_by_seed_name(database, seed_name)

\* get_relevant_identities
get_relevant_identities(database, seed_name, network_specs_key) ==
    SelectSeq(IF seed_name = "" THEN get_all_addresses(database)
              ELSE get_addresses_by_seed_name(database, seed_name),
              LAMBDA k : Contains(database[k].network_id, network_specs_key))

(***************************************************************************)
(* 4.E  Top-level operations: what each stages, and its commit             *)
(***************************************************************************)
\* The value a staging routine hands to the committer.
Prepared(id_batch, events) ==
    [ok |-> TRUE, err |-> "", batch |-> id_batch, events |-> events]

NotPrepared(err) ==
    [ok |-> FALSE, err |-> err, batch |-> <<>>, events |-> <<>>]

\* Commit with a staging error not returned before the committer runs.
Commit_IgnoringFailure(database, hist, prepared, apply_ok) ==
    Only({[result |-> IF ~prepared.ok THEN prepared.err
                      ELSE IF a.ok THEN "Ok" ELSE a.err,
           addrtree |-> a.addrtree, history |-> a.history]
          : a \in {TrDbCold_apply(database, hist, prepared.batch, prepared.events,
                                  apply_ok)}})

\* The tail shared by the top-level mutations: return the staging error, or
\* apply both batches.  Result [result, addrtree, history].
Commit(database, hist, prepared, apply_ok) ==
    IF ~prepared.ok
    THEN [result |-> prepared.err, addrtree |-> database, history |-> hist]
    ELSE Only({[result |-> IF a.ok THEN "Ok" ELSE a.err,
                addrtree |-> a.addrtree, history |-> a.history]
               : a \in {TrDbCold_apply(database, hist, prepared.batch, prepared.events,
                                       apply_ok)}})

\* try_create_seed
try_create_seed(database, hist, specs, seed_name, seed_phrase, apply_ok) ==
    Only({Commit(database, hist, prepared, apply_ok) :
          prepared \in {addresses_three_encryptions(database, specs, seed_name,
                                                    seed_phrase)}})

\* try_create_seed_phrase_proposal
try_create_seed_phrase_proposal(database, hist, specs, seed_name, seed_phrase_proposal, apply_ok) ==
    IF ~Mnemonic_validate(seed_phrase_proposal)
    THEN [result |-> "InvalidPhrase", addrtree |-> database, history |-> hist]
    ELSE try_create_seed(database, hist, specs, seed_name, seed_phrase_proposal, apply_ok)

\* MnemonicType::for_word_count
WordCounts == {12, 15, 18, 21, 24}

\* try_create_seed_with_length; generated_phrase is what the generator draws.
try_create_seed_with_length(database, hist, specs, seed_name, seed_length, generated_phrase, apply_ok) ==
    IF seed_length \notin WordCounts
    THEN [result |-> "RandomPhraseGeneration", addrtree |-> database, history |-> hist]
    ELSE try_create_seed(database, hist, specs, seed_name, generated_phrase, apply_ok)

\* try_create_address deriving with the Sr25519 scheme whatever the network.
prepare_create_address_FixedScheme(database, specs, seed_name, seed_phrase, path, network_specs_key, has_pwd) ==
    IF network_specs_key \notin DOMAIN specs
    THEN NotPrepared("NotFoundNetworkSpecs")
    ELSE LET network_specs == specs[network_specs_key]
             seed_object == [seed_name |-> seed_name, seed_phrase |-> seed_phrase,
                             encryption |-> "Sr25519"]
         IN  Only({IF ~r.ok THEN NotPrepared(r.err)
                   ELSE Prepared(upd_id_batch(Batch_default, r.batch_prep), r.events)
                   : r \in {create_address(database, <<>>, <<>>, path, network_specs,
                                           seed_object, has_pwd, FALSE)}})

\* try_create_address up to the commit.
prepare_create_address(database, specs, seed_name, seed_phrase, path, network_specs_key, has_pwd) ==
    IF network_specs_key \notin DOMAIN specs
    THEN NotPrepared("NotFoundNetworkSpecs")
    ELSE LET network_specs == specs[network_specs_key]
             seed_object == [seed_name |-> seed_name, seed_phrase |-> seed_phrase,
                             encryption |-> network_specs.encryption]
         IN  Only({IF ~r.ok THEN NotPrepared(r.err)
                   ELSE Prepared(upd_id_batch(Batch_default, r.batch_prep), r.events)
                   : r \in {create_address(database, <<>>, <<>>, path, network_specs,
                                           seed_object, has_pwd, FALSE)}})

\* try_create_address
try_create_address(database, hist, specs, seed_name, seed_phrase, path, network_specs_key, has_pwd, apply_ok) ==
    Only({Commit(database, hist, prepared, apply_ok) :
          prepared \in {prepare_create_address(database, specs, seed_name, seed_phrase,
                                               path, network_specs_key, has_pwd)}})

\* prepare_delete_address with the record removed whatever networks remain.
prepare_delete_address_AlwaysRemove(database, specs, public_key, network_specs_key) ==
    IF network_specs_key \notin DOMAIN specs
    THEN NotPrepared("NotFoundNetworkSpecs")
    ELSE LET network_specs == specs[network_specs_key]
             address_key == AddressKey_from_multisigner(network_specs.encryption, public_key)
         IN  IF address_key \notin DOMAIN database
             THEN NotPrepared("NotFoundAddressDetails")
             ELSE Prepared(Batch_remove(Batch_default, address_key),
                           <<Event_IdentityRemoved(
                               IdentityHistory_get(database[address_key].seed_name,
                                                   network_specs.encryption, public_key,
                                                   database[address_key].path,
                                                   network_specs.genesis_hash))>>)

\* prepare_delete_address taking a key without a record as nothing to do.
prepare_delete_address_MissingOk(database, specs, public_key, network_specs_key) ==
    IF network_specs_key \notin DOMAIN specs
    THEN NotPrepared("NotFoundNetworkSpecs")
    ELSE IF AddressKey_from_multisigner(specs[network_specs_key].encryption, public_key)
                \notin DOMAIN database
         THEN Prepared(Batch_default, <<>>)
         ELSE LET network_specs == specs[network_specs_key]
                  address_key == AddressKey_from_multisigner(network_specs.encryption,
                                                             public_key)
                  address_details == database[address_key]
                  network_id == SelectSeq(address_details.network_id,
                                          LAMBDA id : id # network_specs_key)
              IN  Prepared(
                      IF network_id = <<>>
                      THEN Batch_remove(Batch_default, address_key)
                      ELSE Batch_insert(Batch_default, address_key,
                               [address_details EXCEPT !.network_id = network_id]),
                      <<Event_IdentityRemoved(
                          IdentityHistory_get(address_details.seed_name,
                                              network_specs.encryption, public_key,
                                              address_details.path,
                                              network_specs.genesis_hash))>>)

\* prepare_delete_address
prepare_delete_address(database, specs, public_key, network_specs_key) ==
    IF network_specs_key \notin DOMAIN specs
    THEN NotPrepared("NotFoundNetworkSpecs")
    ELSE LET network_specs == specs[network_specs_key]
             address_key == AddressKey_from_multisigner(network_specs.encryption, public_key)
         IN  IF address_key \notin DOMAIN database
             THEN NotPrepared("NotFoundAddressDetails")
             ELSE LET address_details == database[address_key]
                      identity_history ==
                          IdentityHistory_get(address_details.seed_name,
                                              network_specs.encryption, public_key,
                                              address_details.path,
                                              network_specs.genesis_hash)
                      network_id == SelectSeq(address_details.network_id,
                                              LAMBDA id : id # network_specs_key)
                  IN  Prepared(
                          IF network_id = <<>>
                          THEN Batch_remove(Batch_default, address_key)
                          ELSE Batch_insert(Batch_default, address_key,
                                   [address_details EXCEPT !.network_id = network_id]),
                          <<Event_IdentityRemoved(identity_history)>>)

\* delete_address
delete_address(database, hist, specs, public_key, network_specs_key, apply_ok) ==
    Only({Commit(database, hist, prepared, apply_ok) :
          prepared \in {prepare_delete_address(database, specs, public_key,
                                               network_specs_key)}})

RECURSIVE RemovalEvents(_, _, _, _)
\* The inner loop of remove_identities_for_seed over one record's network_id.
RemovalEvents(seed_name, address_key, address_details, network_id) ==
    IF network_id = <<>> THEN <<>>
    ELSE <<Event_IdentityRemoved(
               IdentityHistory_get(seed_name, address_details.encryption,
                                   address_key.public_key, address_details.path,
                                   network_id[1].genesis_hash))>>
         \o RemovalEvents(seed_name, address_key, address_details, Tail(network_id))

RECURSIVE RemoveLoop(_, _, _, _, _)
\* The outer loop of remove_identities_for_seed over the records of the seed.
RemoveLoop(database, seed_name, id_set, identity_batch, events) ==
    IF id_set = <<>> THEN Prepared(identity_batch, events)
    ELSE LET address_key == id_set[1]
             address_details == database[address_key]
         IN  RemoveLoop(database, seed_name, Tail(id_set),
                        Batch_remove(identity_batch, address_key),
                        events \o RemovalEvents(seed_name, address_key, address_details,
                                                address_details.network_id))

\* remove_identities_for_seed reading every record instead of those of the seed.
prepare_remove_identities_AllSeeds(database, seed_name) ==
    RemoveLoop(database, seed_name, get_all_addresses(database), Batch_default, <<>>)

\* remove_identities_for_seed up to the commit.
prepare_remove_identities(database, seed_name) ==
    RemoveLoop(database, seed_name, get_addresses_by_seed_name(database, seed_name),
               Batch_default, <<>>)

\* remove_identities_for_seed
remove_identities_for_seed(database, hist, seed_name, apply_ok) ==
    Only({Commit(database, hist, prepared, apply_ok) :
          prepared \in {prepare_remove_identities(database, seed_name)}})

(***************************************************************************)
(* Inputs                                                                  *)
(***************************************************************************)
NetworkSpecs_of(name, genesis_hash, encryption, path_id) ==
    [name |-> name, genesis_hash |-> genesis_hash, encryption |-> encryption,
     path_id |-> path_id]

NetPolkadot == NetworkSpecs_of("polkadot", 1, "Sr25519", <<"/", "/", "p">>)
NetWestend  == NetworkSpecs_of("westend", 2, "Sr25519", <<"/", "/", "w">>)
NetEd       == NetworkSpecs_of("polkadot-ed", 1, "Ed25519", <<"/", "/", "p">>)
\* A network whose default derivation path is the seed root itself.
NetBare     == NetworkSpecs_of("bare", 3, "Sr25519", <<>>)

SpecsTreeOf(networks) ==
    [k \in {NetworkSpecsKey_from_parts(n.genesis_hash, n.encryption) : n \in networks} |->
        CHOOSE n \in networks :
            NetworkSpecsKey_from_parts(n.genesis_hash, n.encryption) = k]

\* The contents SPECSTREE may have (it is not written by this code).
SpecsConfigs ==
    {SpecsTreeOf({NetPolkadot, NetWestend, NetEd}),
     SpecsTreeOf({NetPolkadot, NetWestend, NetBare})}

\* A network key that is in no SPECSTREE.
UnknownNetwork == NetworkSpecsKey_from_parts(9, "Sr25519")

SeedInputs ==
    {[seed_name |-> "Alice", seed_phrase |-> SEED]}

BadPhrase == "the fox is triangular"

PathA     == <<"/", "/", "a">>
PathA1    == <<"/", "/", "a", "/", "1">>
PathAPwd  == <<"/", "/", "a", "/", "/", "/", "x">>
PathEmptySegment == <<"/", "/">>

\* Derivation strings given to try_create_address: //a, //a///x and the
\* malformed //.
UserPaths == {PathA, PathAPwd, PathEmptySegment}

\* The derivation strings of a session that only derives: //a and //a/1.
DerivePaths == {PathA, PathA1}

NoPublic == [phrase |-> "", junctions |-> <<>>, password |-> <<>>]

NoNetwork == NetworkSpecsKey_from_parts(0, "")

Call(op, result, public_key, network_specs_key) ==
    [op |-> op, result |-> result, public_key |-> public_key,
     network_specs_key |-> network_specs_key]

Callers == {1, 2}

\* A top-level mutation and its arguments, as a concurrent caller issues it.
Mutation(name, seed_name, seed_phrase, path, public_key, network_specs_key) ==
    [name |-> name, seed_name |-> seed_name, seed_phrase |-> seed_phrase, path |-> path,
     public_key |-> public_key, network_specs_key |-> network_specs_key]

NoMutation == Mutation("", "", "", <<>>, NoPublic, NoNetwork)

Idle == [phase |-> "idle", op |-> NoMutation, batch |-> <<>>, events |-> <<>>]

(***************************************************************************)
(* The state machine: one action per top-level operation                   *)
(***************************************************************************)
Init ==
    /\ specstree \in SpecsConfigs
    /\ addrtree = <<>>
    /\ history = <<>>
    /\ last = Call("init", "Ok", NoPublic, NoNetwork)
    /\ pending = [c \in Callers |-> Idle]

TryCreateSeedPhraseProposal ==
    /\ Len(history) < MaxOps
    /\ \E seed_name \in {s.seed_name : s \in SeedInputs},
          phrase \in {s.seed_phrase : s \in SeedInputs} \cup {BadPhrase},
          apply_ok \in BOOLEAN :
          \E r \in {try_create_seed_phrase_proposal(addrtree, history, specstree,
                                                   seed_name, phrase, apply_ok)} :
              /\ addrtree' = r.addrtree
              /\ history' = r.history
              /\ last' = Call("try_create_seed_phrase_proposal", r.result,
                              NoPublic, NoNetwork)
    /\ UNCHANGED <<specstree, pending>>

TryCreateSeedWithLength ==
    /\ Len(history) < MaxOps
    /\ \E seed_name \in {s.seed_name : s \in SeedInputs},
          seed_length \in {1, 24},
          generated \in {s.seed_phrase : s \in SeedInputs},
          apply_ok \in BOOLEAN :
          \E r \in {try_create_seed_with_length(addrtree, history, specstree,
                                               seed_name, seed_length, generated, apply_ok)} :
              /\ addrtree' = r.addrtree
              /\ history' = r.history
              /\ last' = Call("try_create_seed_with_length", r.result,
                              NoPublic, NoNetwork)
    /\ UNCHANGED <<specstree, pending>>

\* A call of try_create_address with its arguments drawn from the given sets.
TryCreateAddressOn(paths, has_pwds, limit) ==
    /\ Len(history) < limit
    /\ \E seed \in SeedInputs, path \in paths,
          network_specs_key \in DOMAIN specstree \cup {UnknownNetwork},
          has_pwd \in has_pwds, apply_ok \in BOOLEAN :
          \E r \in {try_create_address(addrtree, history, specstree, seed.seed_name,
                                      seed.seed_phrase, path, network_specs_key,
                                      has_pwd, apply_ok)} :
              /\ addrtree' = r.addrtree
              /\ history' = r.history
              /\ last' = Call("try_create_address", r.result, NoPublic, NoNetwork)
    /\ UNCHANGED <<specstree, pending>>

TryCreateAddress == TryCreateAddressOn(UserPaths, BOOLEAN, MaxOps)

DeleteAddress ==
    /\ Len(history) < MaxOps
    /\ \E public_key \in {k.public_key : k \in DOMAIN addrtree} \cup {NoPublic},
          network_specs_key \in DOMAIN specstree \cup {UnknownNetwork},
          apply_ok \in BOOLEAN :
          \E r \in {delete_address(addrtree, history, specstree, public_key,
                                  network_specs_key, apply_ok)} :
              /\ addrtree' = r.addrtree
              /\ history' = r.history
              /\ last' = IF r.result = "Ok"
                         THEN Call("delete_address", "Ok", public_key, network_specs_key)
                         ELSE Call("delete_address", r.result, NoPublic, NoNetwork)
    /\ UNCHANGED <<specstree, pending>>

RemoveIdentitiesForSeed ==
    /\ Len(history) < MaxOps
    /\ \E seed_name \in {s.seed_name : s \in SeedInputs} \cup {"Nobody"},
          apply_ok \in BOOLEAN :
          \E r \in {remove_identities_for_seed(addrtree, history, seed_name, apply_ok)} :
              /\ addrtree' = r.addrtree
              /\ history' = r.history
              /\ last' = Call("remove_identities_for_seed", r.result, NoPublic, NoNetwork)
    /\ UNCHANGED <<specstree, pending>>

Next ==
    \/ TryCreateSeedPhraseProposal
    \/ TryCreateSeedWithLength
    \/ TryCreateAddress
    \/ DeleteAddress
    \/ RemoveIdentitiesForSeed

Spec == Init /\ [][Next]_vars

\* A session that only derives addresses, each derivation committed on its own.
Derive == TryCreateAddressOn(DerivePaths, {FALSE}, MaxDerive)

SpecDerive == Init /\ [][Derive]_vars

(***************************************************************************)
(* Concurrent callers.  Every top-level mutation reads the trees and builds *)
(* its batches first (the database handle it read through is dropped), and *)
(* opens the database again to apply them; the store applies one           *)
(* transaction at a time.  A caller's call is therefore two steps.         *)
(***************************************************************************)
RootPublic == Pair_from_string(SEED, <<>>, "Sr25519").public

KeyOfPolkadot == NetworkSpecsKey_from_parts(NetPolkadot.genesis_hash, NetPolkadot.encryption)

KeyOfWestend == NetworkSpecsKey_from_parts(NetWestend.genesis_hash, NetWestend.encryption)

\* The mutations the concurrent callers issue.
ConcurrentMutations ==
    {Mutation("try_create_address", "Alice", SEED, PathA, NoPublic, KeyOfPolkadot),
     Mutation("try_create_address", "Alice", SEED, PathA, NoPublic, KeyOfWestend),
     Mutation("delete_address", "", "", <<>>, RootPublic, KeyOfPolkadot),
     Mutation("delete_address", "", "", <<>>, RootPublic, KeyOfWestend),
     Mutation("remove_identities_for_seed", "Alice", "", <<>>, NoPublic, NoNetwork),
     Mutation("try_create_seed", "Alice", SEED, <<>>, NoPublic, NoNetwork)}

\* What mutation m stages when it reads database.
Prepare(m, database, specs) ==
    CASE m.name = "try_create_address" ->
            prepare_create_address(database, specs, m.seed_name, m.seed_phrase, m.path,
                                   m.network_specs_key, FALSE)
      [] m.name = "delete_address" ->
            prepare_delete_address(database, specs, m.public_key, m.network_specs_key)
      [] m.name = "remove_identities_for_seed" ->
            prepare_remove_identities(database, m.seed_name)
      [] m.name = "try_create_seed" ->
            addresses_three_encryptions(database, specs, m.seed_name, m.seed_phrase)

\* Mutation m run alone on state st = [addrtree, history].
RunAlone(m, st, specs) ==
    Only({[addrtree |-> r.addrtree, history |-> r.history] :
          r \in {Only({Commit(st.addrtree, st.history, prepared, TRUE) :
                       prepared \in {Prepare(m, st.addrtree, specs)}})}})

\* The state the concurrent callers start from: one seed has been created.
BaseState(specs) ==
    Only({[addrtree |-> r.addrtree, history |-> r.history] :
          r \in {try_create_seed_phrase_proposal(<<>>, <<>>, specs, "Alice", SEED, TRUE)}})

ConcInit ==
    /\ specstree \in SpecsConfigs
    /\ addrtree = BaseState(specstree).addrtree
    /\ history = BaseState(specstree).history
    /\ last = Call("init", "Ok", NoPublic, NoNetwork)
    /\ pending = [c \in Callers |-> Idle]

\* Caller c issues a mutation: it reads the trees and stages its batches.
Issue(c) ==
    /\ pending[c].phase = "idle"
    /\ \E m \in ConcurrentMutations :
          \E prepared \in {Prepare(m, addrtree, specstree)} :
              pending' = [pending EXCEPT ![c] =
                              [phase |-> IF prepared.ok THEN "staged" ELSE "done",
                               op |-> m, batch |-> prepared.batch,
                               events |-> prepared.events]]
    /\ UNCHANGED <<specstree, addrtree, history, last>>

\* Caller c's staged batches are applied in one transaction.
Apply(c) ==
    /\ pending[c].phase = "staged"
    /\ \E a \in {TrDbCold_apply(addrtree, history, pending[c].batch, pending[c].events,
                               TRUE)} :
          /\ addrtree' = a.addrtree
          /\ history' = a.history
    /\ pending' = [pending EXCEPT ![c].phase = "done"]
    /\ UNCHANGED <<specstree, last>>

ConcNext == \E c \in Callers : Issue(c) \/ Apply(c)

SpecConc == ConcInit /\ [][ConcNext]_vars

(***************************************************************************)
(* Vocabulary of the properties                                            *)
(***************************************************************************)
LastEntry(hist) == hist[Len(hist)]

EventKey(e) == AddressKey_from_multisigner(e.payload.encryption, e.payload.public_key)

EventNetwork(e) ==
    NetworkSpecsKey_from_parts(e.payload.network_genesis_hash, e.payload.encryption)

\* The networks of the record of key k in tree (none when there is no record).
NetworksOf(tree, k) ==
    IF k \in DOMAIN tree
    THEN {tree[k].network_id[i] : i \in 1..Len(tree[k].network_id)}
    ELSE {}

\* The (record, network) pairs whose membership differs between two trees.
AffectedPairs(old, new) ==
    {kn \in (DOMAIN old \cup DOMAIN new) \X (DOMAIN specstree \cup {UnknownNetwork}) :
        (kn[2] \in NetworksOf(old, kn[1])) # (kn[2] \in NetworksOf(new, kn[1]))}

DerivedKey(seed_phrase, path, encryption) ==
    AddressKey_from_multisigner(encryption,
                                Pair_from_string(seed_phrase, path, encryption).public)

\* The history entry of one committed derivation of path under network n.
DerivationEntry(seed, path, n) ==
    <<Event_IdentityAdded(
        IdentityHistory_get(seed.seed_name, n.encryption,
                            Pair_from_string(seed.seed_phrase, path, n.encryption).public,
                            CroppedPath(path), n.genesis_hash))>>

SeedCreations == {"try_create_seed_phrase_proposal", "try_create_seed_with_length"}

CreationApis == SeedCreations \cup {"try_create_address"}

\* The key the last delete_address call named.
LastDeleteKey(call) ==
    AddressKey_from_multisigner(call.network_specs_key.encryption, call.public_key)

(***************************************************************************)
(* C1  Three separately committed derivations on an empty ADDRTREE, path P *)
(* under net0, P under net1, then another path Q under net0, leave exactly *)
(* one record for the key of P with network_id = [net0, net1] and a        *)
(* separate record for the key of Q with network_id = [net0].              *)
(***************************************************************************)
C1_ThreeDerivations ==
    \A seed \in SeedInputs, P \in DerivePaths, Q \in DerivePaths,
       n0 \in DOMAIN specstree, n1 \in DOMAIN specstree :
        ( /\ P # Q
          /\ n0 # n1
          /\ n0.encryption = n1.encryption
          /\ history = <<DerivationEntry(seed, P, n0), DerivationEntry(seed, P, n1),
                         DerivationEntry(seed, Q, n0)>> )
        => LET kP == DerivedKey(seed.seed_phrase, P, n0.encryption)
               kQ == DerivedKey(seed.seed_phrase, Q, n0.encryption)
           IN  /\ kP # kQ
               /\ DOMAIN addrtree = {kP, kQ}
               /\ addrtree[kP].network_id = <<n0, n1>>
               /\ addrtree[kQ].network_id = <<n0>>

C1_Witness ==
    history = <<DerivationEntry([seed_name |-> "Alice", seed_phrase |-> SEED], PathA,
                                KeyOfPolkadot),
                DerivationEntry([seed_name |-> "Alice", seed_phrase |-> SEED], PathA,
                                KeyOfWestend),
                DerivationEntry([seed_name |-> "Alice", seed_phrase |-> SEED], PathA1,
                                KeyOfPolkadot)>>

(***************************************************************************)
(* C2  A seed creation (one call threading one staged list through its     *)
(* derivations) leaves, for every key it derived, a record whose           *)
(* network_id contains every network the key was derived under in that     *)
(* call, together with the networks the record had before.                 *)
(***************************************************************************)
C2_StagedDerivationsCoalesce ==
    [][ (last'.op \in SeedCreations /\ last'.result = "Ok")
        => \A i \in 1..Len(LastEntry(history')) :
              LET e == LastEntry(history')[i]
              IN  /\ EventNetwork(e) \in NetworksOf(addrtree', EventKey(e))
                  /\ NetworksOf(addrtree, EventKey(e)) \subseteq
                         NetworksOf(addrtree', EventKey(e)) ]_vars

(***************************************************************************)
(* C3  After a successful try_create_seed_phrase_proposal on an empty      *)
(* ADDRTREE, for each scheme whose k networks have pairwise distinct       *)
(* non-empty default paths, ADDRTREE holds exactly k+1 records of that     *)
(* scheme: the root record (path "") listing all k networks, and one       *)
(* record per network at its default path listing exactly that network.    *)
(***************************************************************************)
NetworksOfScheme(encryption) == {n \in DOMAIN specstree : n.encryption = encryption}

DistinctDefaultPaths(encryption) ==
    \A n \in NetworksOfScheme(encryption) :
        /\ specstree[n].path_id # <<>>
        /\ \A m \in NetworksOfScheme(encryption) :
              specstree[m].path_id = specstree[n].path_id => m = n

RecordsOfScheme(encryption) == {k \in DOMAIN addrtree : k.encryption = encryption}

FirstSeedCreated ==
    /\ Len(history) = 1
    /\ last.op = "try_create_seed_phrase_proposal"
    /\ last.result = "Ok"

C4_DeleteMember ==
    [][ LET k   == LastDeleteKey(last')
            net == last'.network_specs_key
        IN  ( /\ last'.op = "delete_address"
              /\ last'.result = "Ok"
              /\ net \in NetworksOf(addrtree, k) )
            => /\ NetworksOf(addrtree', k) = NetworksOf(addrtree, k) \ {net}
               /\ IF NetworksOf(addrtree, k) = {net}
                  THEN k \notin DOMAIN addrtree'
                  ELSE /\ k \in DOMAIN addrtree'
                       /\ [addrtree'[k] EXCEPT !.network_id = <<>>]
                              = [addrtree[k] EXCEPT !.network_id = <<>>]
               /\ ~Contains(get_relevant_identities(addrtree', "", net), k)
               /\ \A m \in NetworksOf(addrtree, k) \ {net} :
                     Contains(get_relevant_identities(addrtree', "", m), k)
               /\ \A o \in (DOMAIN addrtree \cup DOMAIN addrtree') \ {k} :
                     /\ o \in DOMAIN addrtree /\ o \in DOMAIN addrtree'
                     /\ addrtree'[o] = addrtree[o] ]_vars

\* A seed was created, then its root key was deleted from one of its networks
\* and is still recorded for another.
C4_Witness ==
    /\ Len(history) = 2
    /\ Len(history[1]) > 1
    /\ last.op = "delete_address"
    /\ last.result = "Ok"
    /\ last.public_key = RootPublic
    /\ LastDeleteKey(last) \in DOMAIN addrtree
    /\ last.network_specs_key \notin NetworksOf(addrtree, LastDeleteKey(last))

(***************************************************************************)
(* C5  When a creation API returns an error, ADDRTREE is as it was before  *)
(* the call and no history entry has been written.                         *)
(***************************************************************************)
C5_FailedCreationChangesNothing ==
    [][ (last'.op \in CreationApis /\ last'.result # "Ok")
        => (addrtree' = addrtree /\ history' = history) ]_vars

C5_Witness ==
    /\ last.op = "try_create_address"
    /\ last.result = "KeyCollision"
    /\ addrtree # <<>>

(***************************************************************************)
(* C6  A successful single derivation or deletion writes exactly one event *)
(* per (record, network) pair it added or removed, and no event for a pair *)
(* it did not change.                                                      *)
(***************************************************************************)
C6_EventParity ==
    [][ (last'.op \in {"try_create_address", "delete_address"} /\ last'.result = "Ok")
        => /\ {<<EventKey(LastEntry(history')[i]), EventNetwork(LastEntry(history')[i])>> :
                  i \in 1..Len(LastEntry(history'))} = AffectedPairs(addrtree, addrtree')
           /\ Len(LastEntry(history')) = Cardinality(AffectedPairs(addrtree, addrtree')) ]_vars

(***************************************************************************)
(* C7  Every successful delete_address(pk, net) shortens the record's      *)
(* network_id by exactly one entry, the entry net, and removes the record  *)
(* when none is left.                                                      *)
(***************************************************************************)
C7_DeleteReducesByOne ==
    [][ LET k == LastDeleteKey(last')
        IN  (last'.op = "delete_address" /\ last'.result = "Ok")
            => /\ k \in DOMAIN addrtree
               /\ last'.network_specs_key \in NetworksOf(addrtree, k)
               /\ IF k \in DOMAIN addrtree'
                  THEN /\ Len(addrtree'[k].network_id) = Len(addrtree[k].network_id) - 1
                       /\ Len(addrtree'[k].network_id) > 0
                  ELSE Len(addrtree[k].network_id) = 1 ]_vars

(***************************************************************************)
(* C8  No persisted record's network_id holds the same NetworkSpecsKey     *)
(* twice.                                                                  *)
(***************************************************************************)
C8_NoDuplicateNetworks ==
    \A k \in DOMAIN addrtree : NoDuplicates(addrtree[k].network_id)

\* A record that a later derivation extended with a second network.
C8_Witness ==
    /\ last.op = "try_create_address"
    /\ last.result = "Ok"
    /\ \E k \in DOMAIN addrtree :
          /\ addrtree[k].path = PathA
          /\ Len(addrtree[k].network_id) = 2

(***************************************************************************)
(* C9  When two callers issue top-level mutations concurrently, the        *)
(* resulting ADDRTREE and history are those of running the two mutations   *)
(* one after the other in some order.                                      *)
(***************************************************************************)
AllDone == \A c \in Callers : pending[c].phase = "done"

SerialOutcomes ==
    {RunAlone(pending[b].op, RunAlone(pending[a].op, BaseState(specstree), specstree),
              specstree) :
        <<a, b>> \in {<<1, 2>>, <<2, 1>>}}

C9_Serializable ==
    AllDone => [addrtree |-> addrtree, history |-> history] \in SerialOutcomes

(***************************************************************************)
(* C10  The identity batch and the history batch of a top-level mutation   *)
(* are applied in one step: a step writes both or neither, and a failed    *)
(* call leaves both trees as they were.                                    *)
(***************************************************************************)
C10_AtomicCommit ==
    [][ /\ (addrtree' # addrtree) => (history' # history)
        /\ (history' # history)
              => (last'.result = "Ok" /\ Len(history') = Len(history) + 1)
        /\ (last'.result # "Ok") => (addrtree' = addrtree /\ history' = history)
        /\ (last'.result = "Ok") => (history' # history) ]_vars

\* The store refused the transaction of a call made on a populated tree.
C10_Witness ==
    /\ last.result = "DbInternal"
    /\ addrtree # <<>>
    /\ history # <<>>

(***************************************************************************)
(* Secrets in memory.  A buffer is the sequence of the units it holds (the *)
(* seed phrase is one unit, every character of the path another); wiping   *)
(* it overwrites every unit with zero.                                     *)
(***************************************************************************)
NoBuffer == <<>>

\* seed_object.seed_phrase.to_owned() + path
Concat(seed_phrase, path) == <<seed_phrase>> \o path

\* A unit of memory overwritten with zero.
ZeroUnit == "00"

\* Zeroize::zeroize
Zeroize(buffer) == [i \in 1..Len(buffer) |-> ZeroUnit]

Zeroed(buffer) == \A i \in 1..Len(buffer) : buffer[i] = ZeroUnit

\* create_address_full_address with the buffer wiped only when the derivation
\* succeeded.
create_address_full_address_ErrArmLeaks(path, network_specs, seed_object) ==
    IF network_specs.encryption # seed_object.encryption
    THEN NoBuffer
    ELSE LET full_address == Concat(seed_object.seed_phrase, path)
         IN  IF Pair_from_string(seed_object.seed_phrase, path, seed_object.encryption).ok
             THEN Zeroize(full_address)
             ELSE full_address

\* create_address: the memory of full_address when the call returns.  The
\* buffer is made after the scheme test, and each arm of the match on the
\* derivation wipes it before anything else happens.
create_address_full_address(path, network_specs, seed_object) ==
    IF network_specs.encryption # seed_object.encryption
    THEN NoBuffer
    ELSE LET full_address == Concat(seed_object.seed_phrase, path)
         IN  IF Pair_from_string(seed_object.seed_phrase, path, seed_object.encryption).ok
             THEN Zeroize(full_address)
             ELSE Zeroize(full_address)

\* try_create_address: the derivation buffer of its one create_address call.
try_create_address_full_address(specs, seed_name, seed_phrase, path, network_specs_key) ==
    IF network_specs_key \notin DOMAIN specs
    THEN NoBuffer
    ELSE create_address_full_address(path, specs[network_specs_key],
                                     [seed_name |-> seed_name, seed_phrase |-> seed_phrase,
                                      encryption |-> specs[network_specs_key].encryption])

\* A copy of the seed phrase a top-level function owns, as it is in memory
\* when the function returns.
PhraseCopy(holder, memory) == [holder |-> holder, memory |-> memory]

\* try_create_seed_phrase_proposal and try_create_seed_with_length: the copy
\* seed_phrase exists once the phrase is there; it is returned on success
\* and wiped before an error is returned.
try_create_seed_copies(have_phrase, seed_phrase, result) ==
    IF ~have_phrase THEN <<>>
    ELSE IF result = "Ok"
         THEN <<PhraseCopy("seed_phrase", <<seed_phrase>>)>>
         ELSE <<PhraseCopy("seed_phrase", Zeroize(<<seed_phrase>>))>>

\* try_create_address: seed_object.seed_phrase is made once the network specs
\* are found; the function never wipes it, it is dropped as it is.
try_create_address_copies(specs, seed_phrase, network_specs_key) ==
    IF network_specs_key \notin DOMAIN specs THEN <<>>
    ELSE <<PhraseCopy("seed_object.seed_phrase", <<seed_phrase>>)>>

(***************************************************************************)
(* export_identity                                                         *)
(***************************************************************************)
\* export_identity with the membership test left out.
export_identity_NoMembershipTest(database, specs, public_key, network_specs_key, qr_ok) ==
    IF network_specs_key \notin DOMAIN specs
    THEN "NotFoundNetworkSpecs"
    ELSE IF AddressKey_from_multisigner(specs[network_specs_key].encryption, public_key)
                \notin DOMAIN database
         THEN "NotFoundAddressDetails"
         ELSE IF qr_ok THEN "Ok" ELSE "Qr"

\* export_identity: its result; it writes nothing.
export_identity(database, specs, public_key, network_specs_key, qr_ok) ==
    IF network_specs_key \notin DOMAIN specs
    THEN "NotFoundNetworkSpecs"
    ELSE LET address_key ==
                 AddressKey_from_multisigner(specs[network_specs_key].encryption, public_key)
         IN  IF address_key \notin DOMAIN database
             THEN "NotFoundAddressDetails"
             ELSE IF Contains(database[address_key].network_id, network_specs_key)
                  THEN IF qr_ok THEN "Ok" ELSE "Qr"
                  ELSE "NotFoundNetworkSpecsKeyForAddress"

(***************************************************************************)
(* Sessions in which every call is recorded with its arguments, what it    *)
(* staged and the secrets it leaves in memory.                             *)
(***************************************************************************)
\* Cap on the number of calls that write a history entry.
MaxTraced == 1

NetZero     == NetworkSpecs_of("zero", 1, "Sr25519", <<"/", "/", "0">>)
NetZeroZero == NetworkSpecs_of("zerozero", 2, "Sr25519", <<"/", "/", "0", "0">>)
NetPwd      == NetworkSpecs_of("pwd", 3, "Sr25519", <<"/", "/", "a", "/", "/", "/", "x">>)

\* SPECSTREE contents, among them one whose default paths are //0, //00 (the
\* same junction written twice) and //a///x (a default path with a password).
TracedConfigs == SpecsConfigs \cup {SpecsTreeOf({NetZero, NetZeroZero, NetPwd})}

BobPhrase == "legal winner thank year wave sausage worth useful legal winner thank yellow"

TracedSeeds ==
    {[seed_name |-> "Alice", seed_phrase |-> SEED],
     [seed_name |-> "Bob", seed_phrase |-> BobPhrase]}

\* //a///  : a password part that is empty
PathAEmptyPwd == <<"/", "/", "a", "/", "/", "/">>

TracedPaths == {PathA, PathAPwd, PathAEmptyPwd, PathEmptySegment}

\* ADDRTREE after the seeds Alice and Bob were created.
TwoSeeds(specs) ==
    Only({try_create_seed_phrase_proposal(a.addrtree, <<>>, specs, "Bob", BobPhrase,
                                          TRUE).addrtree :
          a \in {try_create_seed_phrase_proposal(<<>>, <<>>, specs, "Alice", SEED, TRUE)}})

\* ADDRTREE after, in addition, Alice derived //a and //a///x under the
\* Sr25519 network of genesis hash 1.
TwoSeedsDerived(specs) ==
    Only({try_create_address(a.addrtree, <<>>, specs, "Alice", SEED, PathAPwd,
                             KeyOfPolkadot, TRUE, TRUE).addrtree :
          a \in {try_create_address(TwoSeeds(specs), <<>>, specs, "Alice", SEED, PathA,
                                    KeyOfPolkadot, FALSE, TRUE)}})

\* The public keys named in calls that take one.
TracedPublicKeys ==
    {RootPublic, Pair_from_string(SEED, PathA, "Sr25519").public, NoPublic}

TracedCall(name, seed_name, seed_phrase, path, public_key, network_specs_key, has_pwd) ==
    [name |-> name, seed_name |-> seed_name, seed_phrase |-> seed_phrase, path |-> path,
     public_key |-> public_key, network_specs_key |-> network_specs_key,
     has_pwd |-> has_pwd]

\* What is recorded of a call: the call, what it staged, its result and the
\* secrets in memory when it returned.
Trace(call, prepared, result, full_address, copies) ==
    [phase |-> "done", op |-> call, batch |-> prepared.batch, events |-> prepared.events,
     staged |-> IF prepared.ok THEN "Ok" ELSE prepared.err, result |-> result,
     full_address |-> full_address, copies |-> copies]

\* The history log was cleared; ADDRTREE is empty or holds what earlier calls
\* left.
TracedInit ==
    /\ specstree \in TracedConfigs
    /\ addrtree \in {<<>>, TwoSeeds(specstree), TwoSeedsDerived(specstree)}
    /\ history = <<>>
    /\ last = Call("init", "Ok", NoPublic, NoNetwork)
    /\ pending = [c \in Callers |-> Idle]

TracedCreateSeedPhraseProposal ==
    /\ Len(history) < MaxTraced
    /\ \E seed \in TracedSeeds \cup {[seed_name |-> "Alice", seed_phrase |-> BadPhrase]},
          apply_ok \in BOOLEAN :
          \E prepared \in {IF Mnemonic_validate(seed.seed_phrase)
                           THEN addresses_three_encryptions(addrtree, specstree,
                                                            seed.seed_name, seed.seed_phrase)
                           ELSE NotPrepared("InvalidPhrase")} :
          \E r \in {try_create_seed_phrase_proposal(addrtree, history, specstree,
                                                   seed.seed_name, seed.seed_phrase,
                                                   apply_ok)} :
              /\ addrtree' = r.addrtree
              /\ history' = r.history
              /\ last' = Call("try_create_seed_phrase_proposal", r.result,
                              NoPublic, NoNetwork)
              /\ pending' = [pending EXCEPT ![1] =
                    Trace(TracedCall("try_create_seed_phrase_proposal", seed.seed_name,
                                     seed.seed_phrase, <<>>, NoPublic, NoNetwork, FALSE),
                          prepared, r.result, NoBuffer,
                          try_create_seed_copies(Mnemonic_validate(seed.seed_phrase),
                                                 seed.seed_phrase, r.result))]
    /\ UNCHANGED specstree

TracedCreateSeedWithLength ==
    /\ Len(history) < MaxTraced
    /\ \E seed \in TracedSeeds, seed_length \in {1, 12}, apply_ok \in BOOLEAN :
          \E prepared \in {IF seed_length \in WordCounts
                           THEN addresses_three_encryptions(addrtree, specstree,
                                                            seed.seed_name, seed.seed_phrase)
                           ELSE NotPrepared("RandomPhraseGeneration")} :
          \E r \in {try_create_seed_with_length(addrtree, history, specstree,
                                               seed.seed_name, seed_length,
                                               seed.seed_phrase, apply_ok)} :
              /\ addrtree' = r.addrtree
              /\ history' = r.history
              /\ last' = Call("try_create_seed_with_length", r.result, NoPublic, NoNetwork)
              /\ pending' = [pending EXCEPT ![1] =
                    Trace(TracedCall("try_create_seed_with_length", seed.seed_name,
                                     seed.seed_phrase, <<>>, NoPublic, NoNetwork, FALSE),
                          prepared, r.result, NoBuffer,
                          try_create_seed_copies(seed_length \in WordCounts,
                                                 seed.seed_phrase, r.result))]
    /\ UNCHANGED specstree

TracedCreateAddress ==
    /\ Len(history) < MaxTraced
    /\ \E path \in TracedPaths,
          network_specs_key \in DOMAIN specstree \cup {UnknownNetwork},
          has_pwd \in BOOLEAN, apply_ok \in BOOLEAN :
          \E prepared \in {prepare_create_address(addrtree, specstree, "Alice", SEED, path,
                                                 network_specs_key, has_pwd)} :
          \E r \in {try_create_address(addrtree, history, specstree, "Alice", SEED, path,
                                      network_specs_key, has_pwd, apply_ok)} :
              /\ addrtree' = r.addrtree
              /\ history' = r.history
              /\ last' = Call("try_create_address", r.result, NoPublic, NoNetwork)
              /\ pending' = [pending EXCEPT ![1] =
                    Trace(TracedCall("try_create_address", "Alice", SEED, path, NoPublic,
                                     network_specs_key, has_pwd),
                          prepared, r.result,
                          try_create_address_full_address(specstree, "Alice", SEED, path,
                                                          network_specs_key),
                          try_create_address_copies(specstree, SEED, network_specs_key))]
    /\ UNCHANGED specstree

TracedDeleteAddress ==
    /\ Len(history) < MaxTraced
    /\ \E public_key \in TracedPublicKeys,
          network_specs_key \in DOMAIN specstree \cup {UnknownNetwork},
          apply_ok \in BOOLEAN :
          \E prepared \in {prepare_delete_address(addrtree, specstree, public_key,
                                                 network_specs_key)} :
          \E r \in {delete_address(addrtree, history, specstree, public_key,
                                  network_specs_key, apply_ok)} :
              /\ addrtree' = r.addrtree
              /\ history' = r.history
              /\ last' = IF r.result = "Ok"
                         THEN Call("delete_address", "Ok", public_key, network_specs_key)
                         ELSE Call("delete_address", r.result, NoPublic, NoNetwork)
              /\ pending' = [pending EXCEPT ![1] =
                    Trace(TracedCall("delete_address", "", "", <<>>, public_key,
                                     network_specs_key, FALSE),
                          prepared, r.result, NoBuffer, <<>>)]
    /\ UNCHANGED specstree

TracedRemoveIdentitiesForSeed ==
    /\ Len(history) < MaxTraced
    /\ \E seed_name \in {s.seed_name : s \in TracedSeeds} \cup {"Nobody"},
          apply_ok \in BOOLEAN :
          \E prepared \in {prepare_remove_identities(addrtree, seed_name)} :
          \E r \in {remove_identities_for_seed(addrtree, history, seed_name, apply_ok)} :
              /\ addrtree' = r.addrtree
              /\ history' = r.history
              /\ last' = Call("remove_identities_for_seed", r.result, NoPublic, NoNetwork)
              /\ pending' = [pending EXCEPT ![1] =
                    Trace(TracedCall("remove_identities_for_seed", seed_name, "", <<>>,
                                     NoPublic, NoNetwork, FALSE),
                          prepared, r.result, NoBuffer, <<>>)]
    /\ UNCHANGED specstree

TracedExportIdentity ==
    /\ Len(history) < MaxTraced
    /\ \E public_key \in TracedPublicKeys,
          network_specs_key \in DOMAIN specstree \cup {UnknownNetwork},
          qr_ok \in BOOLEAN :
          \E result \in {export_identity(addrtree, specstree, public_key,
                                        network_specs_key, qr_ok)} :
              /\ last' = Call("export_identity", result, public_key, network_specs_key)
              /\ pending' = [pending EXCEPT ![1] =
                    Trace(TracedCall("export_identity", "", "", <<>>, public_key,
                                     network_specs_key, FALSE),
                          Prepared(<<>>, <<>>), result, NoBuffer, <<>>)]
    /\ UNCHANGED <<specstree, addrtree, history>>

TracedNext ==
    \/ TracedCreateSeedPhraseProposal
    \/ TracedCreateSeedWithLength
    \/ TracedCreateAddress
    \/ TracedDeleteAddress
    \/ TracedRemoveIdentitiesForSeed
    \/ TracedExportIdentity

SpecTraced == TracedInit /\ [][TracedNext]_vars

\* The call recorded last, and the key it derived.
TheCall == pending[1].op

TheCallKey(call) == DerivedKey(call.seed_phrase, call.path, call.network_specs_key.encryption)

\* The recorded call is a try_create_address whose network is known and whose
\* derivation succeeds.
DerivationCall(call) ==
    /\ call.name = "try_create_address"
    /\ call.network_specs_key \in DOMAIN specstree
    /\ Pair_from_string(call.seed_phrase, call.path,
                        call.network_specs_key.encryption).ok

(***************************************************************************)
(* C11  When the derived key is already persisted with the path equal to   *)
(* the cropped path of the derivation string (a string REG_PATH matches,   *)
(* with or without a password) and the network is not in its network_id,   *)
(* the derivation stages the record with the network appended.             *)
(***************************************************************************)
C11_PersistedKeyGainsNetwork ==
    [][ LET call == pending'[1].op
            k    == TheCallKey(call)
            n    == call.network_specs_key
        IN  ( /\ DerivationCall(call)
              /\ REG_PATH_captures(call.path).matched
              /\ k \in DOMAIN addrtree
              /\ addrtree[k].path = CroppedPath(call.path)
              /\ n \notin NetworksOf(addrtree, k) )
            => /\ pending'[1].staged = "Ok"
               /\ pending'[1].batch =
                     <<[op |-> "insert", key |-> k,
                        value |-> [addrtree[k] EXCEPT !.network_id = Append(@, n)]]>> ]_vars

(***************************************************************************)
(* C12  A derivation whose key is already recorded with another path is    *)
(* rejected with KeyCollision and leaves the record as it was: a           *)
(* try_create_address whose key is persisted with a path other than its    *)
(* cropped path fails with KeyCollision and ADDRTREE is unchanged; and a   *)
(* seed creation merges no derivation into a record of another path, so    *)
(* every event it writes carries the path of the record of its key.        *)
(***************************************************************************)
C12_KeyCollisionRejected ==
    [][ LET call == pending'[1].op
            k    == TheCallKey(call)
        IN  /\ ( /\ DerivationCall(call)
                 /\ k \in DOMAIN addrtree
                 /\ addrtree[k].path # CroppedPath(call.path) )
               => /\ pending'[1].staged = "KeyCollision"
                  /\ pending'[1].result = "KeyCollision"
                  /\ addrtree' = addrtree
            /\ ( /\ call.name \in SeedCreations
                 /\ pending'[1].result = "Ok" )
               => \A i \in 1..Len(pending'[1].events) :
                     LET e == pending'[1].events[i]
                     IN  /\ EventKey(e) \in DOMAIN addrtree'
                         /\ addrtree'[EventKey(e)].path = e.payload.path ]_vars

(***************************************************************************)
(* C13  A try_create_address whose key is already persisted with the same  *)
(* path and already in the target network leaves ADDRTREE as it was.       *)
(***************************************************************************)
C13_RederivationNoOp ==
    [][ LET call == pending'[1].op
            k    == TheCallKey(call)
        IN  ( /\ DerivationCall(call)
              /\ k \in DOMAIN addrtree
              /\ addrtree[k].path = CroppedPath(call.path)
              /\ call.network_specs_key \in NetworksOf(addrtree, k) )
            => addrtree' = addrtree ]_vars

\* A repeated derivation returned Ok having staged nothing.
C13_Witness ==
    /\ DerivationCall(TheCall)
    /\ pending[1].result = "Ok"
    /\ pending[1].batch = <<>>
    /\ TheCallKey(TheCall) \in DOMAIN addrtree
    /\ TheCall.network_specs_key \in NetworksOf(addrtree, TheCallKey(TheCall))

(***************************************************************************)
(* C14  Whenever a try_create_address call reached its derivation, the     *)
(* buffer that held seed_phrase || path is wiped, every unit of it zero,   *)
(* when the call returns, whatever the exit: success, SecretString,        *)
(* KeyCollision or a failed transaction.                                   *)
(***************************************************************************)
C14_DerivationBufferWiped ==
    (TheCall.name = "try_create_address" /\ TheCall.network_specs_key \in DOMAIN specstree)
    => /\ Len(pending[1].full_address) = 1 + Len(TheCall.path)
       /\ Zeroed(pending[1].full_address)

\* A derivation that succeeded and was then rejected with KeyCollision.
C14_Witness ==
    /\ TheCall.name = "try_create_address"
    /\ pending[1].result = "KeyCollision"
    /\ pending[1].full_address # NoBuffer
    /\ Zeroed(pending[1].full_address)

(***************************************************************************)
(* C15  When a creation API returns an error, every copy of the seed       *)
(* phrase the function made is wiped.                                      *)
(***************************************************************************)
C15_PhraseCopiesWipedOnError ==
    (TheCall.name \in CreationApis /\ pending[1].result # "Ok")
    => \A i \in 1..Len(pending[1].copies) : Zeroed(pending[1].copies[i].memory)

(***************************************************************************)
(* C16  A successful remove_identities_for_seed(name) removes every record *)
(* whose seed_name is name, leaves every other record as it was, and       *)
(* writes exactly one IdentityRemoved event for each (record, network)     *)
(* pair the removed records held.                                          *)
(***************************************************************************)
\* The (record, network) pairs of the records of seed_name in tree.
PairsOfSeed(tree, seed_name) ==
    {kn \in (DOMAIN tree) \X (DOMAIN specstree \cup {UnknownNetwork}) :
        /\ tree[kn[1]].seed_name = seed_name
        /\ kn[2] \in NetworksOf(tree, kn[1])}

\* The places in events of the IdentityRemoved event of record k in network n.
RemovedEventsOf(events, tree, k, n) ==
    {i \in 1..Len(events) :
        events[i] = Event_IdentityRemoved(
                        IdentityHistory_get(tree[k].seed_name, tree[k].encryption,
                                            k.public_key, tree[k].path, n.genesis_hash))}

C16_RemoveIdentitiesForSeed ==
    [][ ( /\ pending'[1].op.name = "remove_identities_for_seed"
          /\ pending'[1].result = "Ok" )
        => LET name == pending'[1].op.seed_name
               events == LastEntry(history')
           IN  /\ \A k \in DOMAIN addrtree :
                     IF addrtree[k].seed_name = name
                     THEN k \notin DOMAIN addrtree'
                     ELSE k \in DOMAIN addrtree' /\ addrtree'[k] = addrtree[k]
               /\ DOMAIN addrtree' \subseteq DOMAIN addrtree
               /\ history' = Append(history, events)
               /\ \A kn \in PairsOfSeed(addrtree, name) :
                     Cardinality(RemovedEventsOf(events, addrtree, kn[1], kn[2])) = 1
               /\ Len(events) = Cardinality(PairsOfSeed(addrtree, name)) ]_vars

\* Alice's records were removed, with their events, while Bob's are still there.
C16_Witness ==
    /\ TheCall.name = "remove_identities_for_seed"
    /\ TheCall.seed_name = "Alice"
    /\ pending[1].result = "Ok"
    /\ Len(LastEntry(history)) > 1
    /\ \E k \in DOMAIN addrtree : addrtree[k].seed_name = "Bob"
    /\ \A k \in DOMAIN addrtree : addrtree[k].seed_name # "Alice"

(***************************************************************************)
(* C17  The events staged by one bulk populate are in emission order: the  *)
(* schemes in the order Ed25519, Sr25519, Ecdsa, within a scheme the       *)
(* networks in the order of their SPECSTREE keys, and for each network the *)
(* event of the root derivation first, with the event of the default-path  *)
(* derivation, if there is one, right after it.                            *)
(***************************************************************************)
\* The places in events of the events of network n.
EventsOfNetwork(events, n) == {i \in 1..Len(events) : EventNetwork(events[i]) = n}

C17_PopulateEventOrder ==
    (TheCall.name \in SeedCreations /\ pending[1].staged = "Ok")
    => LET events == pending[1].events
           seed == [seed_name |-> TheCall.seed_name, seed_phrase |-> TheCall.seed_phrase]
       IN  /\ \A i \in 1..Len(events) :
                 /\ events[i].event = "identity_added"
                 /\ EventNetwork(events[i]) \in DOMAIN specstree
           /\ \A i, j \in 1..Len(events) :
                 i < j => ~SpecsKeyLess(EventNetwork(events[j]), EventNetwork(events[i]))
           /\ \A n \in DOMAIN specstree :
                 LET at == EventsOfNetwork(events, n)
                     root == MinOf(at)
                 IN  /\ at # {}
                     /\ <<events[root]>> = DerivationEntry(seed, <<>>, n)
                     /\ at \subseteq {root, root + 1}
                     /\ (root + 1) \in at
                           => <<events[root + 1]>>
                                 = DerivationEntry(seed, specstree[n].path_id, n)

\* A bulk populate over two schemes, one of them with two networks, each with
\* its root event and its default-path event.
C17_Witness ==
    /\ TheCall.name \in SeedCreations
    /\ pending[1].staged = "Ok"
    /\ \E n, m \in DOMAIN specstree :
          /\ n.encryption = m.encryption /\ n # m
          /\ Cardinality(EventsOfNetwork(pending[1].events, n)) = 2
          /\ Cardinality(EventsOfNetwork(pending[1].events, m)) = 2
    /\ \E n, m \in DOMAIN specstree :
          /\ n.encryption # m.encryption
          /\ Cardinality(EventsOfNetwork(pending[1].events, n)) = 2
          /\ Cardinality(EventsOfNetwork(pending[1].events, m)) = 2

(***************************************************************************)
(* C18  Every record stored by try_create_address or by a bulk populate    *)
(* has has_pwd true exactly when the derivation string it was created from *)
(* has a ///password part.                                                 *)
(***************************************************************************)
\* The derivation strings a creation call derives from.
DerivationStrings(call) ==
    IF call.name = "try_create_address"
    THEN {call.path}
    ELSE {<<>>} \cup {specstree[n].path_id : n \in DOMAIN specstree}

C18_HasPwdMatchesString ==
    [][ ( /\ pending'[1].op.name \in CreationApis
          /\ pending'[1].result = "Ok" )
        => \A k \in DOMAIN addrtree' \ DOMAIN addrtree :
              \A s \in DerivationStrings(pending'[1].op) :
                 ( /\ Pair_from_string(pending'[1].op.seed_phrase, s, k.encryption).ok
                   /\ DerivedKey(pending'[1].op.seed_phrase, s, k.encryption) = k )
                 => addrtree'[k].has_pwd = REG_PATH_captures(s).has_password ]_vars

(***************************************************************************)
(* C19  In every stored record, each network key of network_id has the     *)
(* scheme of the record, and the record has the scheme of its AddressKey.  *)
(***************************************************************************)
C19_SchemesAgree ==
    \A k \in DOMAIN addrtree :
        /\ addrtree[k].encryption = k.encryption
        /\ \A i \in 1..Len(addrtree[k].network_id) :
              addrtree[k].network_id[i].encryption = addrtree[k].encryption

\* Records of two schemes are stored, one of them in two networks.
C19_Witness ==
    /\ \E k, o \in DOMAIN addrtree : k.encryption # o.encryption
    /\ \E k \in DOMAIN addrtree : Len(addrtree[k].network_id) >= 2

(***************************************************************************)
(* C20  export_identity(pk, net) returns Ok only if ADDRTREE holds a       *)
(* record for the key of pk under the scheme of net and net is in its      *)
(* network_id; for a network of SPECSTREE, if the record exists and net is *)
(* not in its network_id the call fails with NotFound                      *)
(* NetworkSpecsKeyForAddress; no call changes ADDRTREE or the history.     *)
(***************************************************************************)
\* The address key an export_identity call looks up.
ExportKey(call) ==
    AddressKey_from_multisigner(call.network_specs_key.encryption, call.public_key)

C20_ExportIdentity ==
    [][ pending'[1].op.name = "export_identity"
        => LET call == pending'[1].op
               net  == call.network_specs_key
               key  == ExportKey(call)
           IN  /\ pending'[1].result = "Ok"
                    => key \in DOMAIN addrtree /\ net \in NetworksOf(addrtree, key)
               /\ ( /\ net \in DOMAIN specstree
                    /\ key \in DOMAIN addrtree
                    /\ net \notin NetworksOf(addrtree, key) )
                    => pending'[1].result = "NotFoundNetworkSpecsKeyForAddress"
               /\ addrtree' = addrtree
               /\ history' = history ]_vars

\* An export of a stored key in a network of SPECSTREE the record is not in.
C20_Witness ==
    /\ TheCall.name = "export_identity"
    /\ pending[1].result = "NotFoundNetworkSpecsKeyForAddress"
    /\ TheCall.network_specs_key \in DOMAIN specstree
    /\ ExportKey(TheCall) \in DOMAIN addrtree
    /\ TheCall.network_specs_key \notin NetworksOf(addrtree, ExportKey(TheCall))

(***************************************************************************)
(* C21  delete_address(pk, net) for a key that has no record in ADDRTREE   *)
(* fails with NotFound, writes no event and leaves ADDRTREE unchanged.     *)
(***************************************************************************)
NotFoundErrors ==
    {"NotFoundNetworkSpecs", "NotFoundAddressDetails", "NotFoundNetworkSpecsKeyForAddress"}

C21_DeleteMissingRecord ==
    [][ ( /\ pending'[1].op.name = "delete_address"
          /\ LastDeleteKey(pending'[1].op) \notin DOMAIN addrtree )
        => /\ pending'[1].result \in NotFoundErrors
           /\ history' = history
           /\ addrtree' = addrtree ]_vars

\* A delete_address in a network of SPECSTREE for a key with no record, in a
\* tree that holds other records.
C21_Witness ==
    /\ TheCall.name = "delete_address"
    /\ TheCall.network_specs_key \in DOMAIN specstree
    /\ LastDeleteKey(TheCall) \notin DOMAIN addrtree
    /\ pending[1].result = "NotFoundAddressDetails"
    /\ addrtree # <<>>

(***************************************************************************)
(* Strings and numbers of the read-only helpers                            *)
(***************************************************************************)
\* str::starts_with
StartsWith(s, prefix) ==
    Len(prefix) <= Len(s) /\ SubSeq(s, 1, Len(prefix)) = prefix

DigitChars == <<"0", "1", "2", "3", "4", "5", "6", "7", "8", "9">>

DigitValue(c) == (CHOOSE i \in 1..10 : DigitChars[i] = c) - 1

RECURSIVE DecimalValue(_)
\* The number a non-empty run of digits denotes.
DecimalValue(digits) ==
    IF Len(digits) = 1 THEN DigitValue(digits[1])
    ELSE 10 * DecimalValue(SubSeq(digits, 1, Len(digits) - 1))
         + DigitValue(digits[Len(digits)])

\* str::parse::<u32>(): an optional + sign, then one or more digits.
parse_u32(s) ==
    LET digits == IF s # <<>> /\ s[1] = "+" THEN Tail(s) ELSE s
    IN  IF digits # <<>> /\ \A i \in 1..Len(digits) : digits[i] \in Digits
        THEN [ok |-> TRUE, value |-> DecimalValue(digits)]
        ELSE [ok |-> FALSE, value |-> 0]

RECURSIVE to_string(_)
\* u32::to_string()
to_string(n) ==
    IF n < 10 THEN <<DigitChars[n + 1]>>
    ELSE to_string(n \div 10) \o <<DigitChars[(n % 10) + 1]>>

\* str::split_once(pat) when it gives Some(("", suffix)): pat is found first at
\* the start of s, and suffix is what follows it.
SplitOnceAtStart(s, pat) ==
    IF StartsWith(s, pat)
    THEN [some |-> TRUE, suffix |-> SubSeq(s, Len(pat) + 1, Len(s))]
    ELSE [some |-> FALSE, suffix |-> <<>>]

\* str::get(2..)
Get2(s) ==
    IF Len(s) >= 2
    THEN [some |-> TRUE, str |-> SubSeq(s, 3, Len(s))]
    ELSE [some |-> FALSE, str |-> <<>>]

(***************************************************************************)
(* suggest_n_plus_one                                                      *)
(***************************************************************************)
RECURSIVE SuggestLoop(_, _, _, _)
\* The loop of suggest_n_plus_one over the identities read.
SuggestLoop(database, identities, path, last_index) ==
    IF identities = <<>> THEN last_index
    ELSE LET details == database[identities[1]]
             split == SplitOnceAtStart(details.path, path)
             could_be_number == Get2(split.suffix)
             index == parse_u32(could_be_number.str)
         IN  SuggestLoop(database, Tail(identities), path,
                         IF split.some /\ could_be_number.some /\ index.ok
                         THEN IF index.value + 1 > last_index THEN index.value + 1
                              ELSE last_index
                         ELSE last_index)

\* suggest_n_plus_one
suggest_n_plus_one(database, path, seed_name, network_specs_key) ==
    path \o <<"/", "/">>
         \o to_string(SuggestLoop(database,
                                  get_relevant_identities(database, seed_name,
                                                          network_specs_key),
                                  path, 0))

(***************************************************************************)
(* Sessions of derivations and reads: Alice derives numbered paths, and    *)
(* the read-only calls are made on what ADDRTREE then holds.               *)
(***************************************************************************)
MaxReads == 2

PathA_1   == <<"/", "/", "a", "/", "/", "1">>
PathA_10  == <<"/", "/", "a", "/", "/", "1", "0">>
PathA_X   == <<"/", "/", "a", "/", "/", "x">>
\* //a/12 : a soft junction after //a
PathASoft12 == <<"/", "/", "a", "/", "1", "2">>
PathB     == <<"/", "/", "b">>

ReadPaths == {PathA_1, PathA_10, PathA_X, PathASoft12, PathB}

\* The base paths given to suggest_n_plus_one.
BasePaths == {PathA, <<>>}

ReadSeedNames == {"Alice", "Bob", ""}

\* What is recorded of a read-only call of an identity list.
ReadCall(op, path, seed_name, network_specs_key, result) ==
    [op |-> op, path |-> path, seed_name |-> seed_name,
     network_specs_key |-> network_specs_key, result |-> result]

ReadsInit ==
    /\ specstree = SpecsTreeOf({NetPolkadot, NetWestend, NetEd})
    /\ addrtree \in {<<>>, TwoSeeds(specstree)}
    /\ history = <<>>
    /\ last = Call("init", "Ok", NoPublic, NoNetwork)
    /\ pending = [c \in Callers |-> Idle]

ReadsCreateAddress ==
    /\ Len(history) < MaxReads
    /\ \E path \in ReadPaths, network_specs_key \in {KeyOfPolkadot, KeyOfWestend} :
          \E r \in {try_create_address(addrtree, history, specstree, "Alice", SEED, path,
                                      network_specs_key, FALSE, TRUE)} :
              /\ addrtree' = r.addrtree
              /\ history' = r.history
              /\ last' = Call("try_create_address", r.result, NoPublic, network_specs_key)
    /\ UNCHANGED <<specstree, pending>>

ReadsSuggestNPlusOne ==
    /\ \E path \in BasePaths, seed_name \in ReadSeedNames,
          network_specs_key \in DOMAIN specstree :
          last' = ReadCall("suggest_n_plus_one", path, seed_name, network_specs_key,
                           suggest_n_plus_one(addrtree, path, seed_name,
                                              network_specs_key))
    /\ UNCHANGED <<specstree, addrtree, history, pending>>

ReadsGetRelevant ==
    /\ \E seed_name \in ReadSeedNames,
          network_specs_key \in DOMAIN specstree \cup {UnknownNetwork} :
          last' = ReadCall("get_relevant_identities", <<>>, seed_name, network_specs_key,
                           get_relevant_identities(addrtree, seed_name,
                                                   network_specs_key))
    /\ UNCHANGED <<specstree, addrtree, history, pending>>

ReadsNext ==
    \/ ReadsCreateAddress
    \/ ReadsSuggestNPlusOne
    \/ ReadsGetRelevant

SpecReads == ReadsInit /\ [][ReadsNext]_vars

(***************************************************************************)
(* C22  suggest_n_plus_one(base, seed, net) looks only at the identities   *)
(* of that seed and network whose path starts with base//, takes the       *)
(* largest k among those whose remainder after base// parses as a decimal  *)
(* number, and returns base//(k+1), or base//0 when no identity matches.   *)
(***************************************************************************)
\* The numbers after base// on the paths of the identities ids.
NumbersAfterBase(database, ids, base) ==
    {parse_u32(SubSeq(database[ids[i]].path, Len(base) + 3,
                      Len(database[ids[i]].path))).value :
        i \in {j \in 1..Len(ids) :
                 /\ StartsWith(database[ids[j]].path, base \o <<"/", "/">>)
                 /\ parse_u32(SubSeq(database[ids[j]].path, Len(base) + 3,
                                     Len(database[ids[j]].path))).ok}}

MaxOf(S) == CHOOSE x \in S : \A y \in S : y <= x

C22_SuggestNPlusOne ==
    last.op = "suggest_n_plus_one"
    => LET ks == NumbersAfterBase(addrtree,
                                  get_relevant_identities(addrtree, last.seed_name,
                                                          last.network_specs_key),
                                  last.path)
       IN  last.result = last.path \o <<"/", "/">>
                             \o to_string(IF ks = {} THEN 0 ELSE MaxOf(ks) + 1)

(***************************************************************************)
(* C23  get_relevant_identities(seed_name, net) returns exactly the        *)
(* records of ADDRTREE whose network_id contains net and whose seed_name   *)
(* is the one given, an empty seed_name standing for every seed; no record *)
(* that is not in net is returned.                                         *)
(***************************************************************************)
C23_GetRelevant ==
    last.op = "get_relevant_identities"
    => /\ NoDuplicates(last.result)
       /\ {last.result[i] : i \in 1..Len(last.result)}
            = {k \in DOMAIN addrtree :
                 /\ last.network_specs_key \in NetworksOf(addrtree, k)
                 /\ last.seed_name = "" \/ addrtree[k].seed_name = last.seed_name}

\* A read for Alice in a network that holds records of Alice and of Bob, while
\* Alice has a record outside the network: some are returned, some are not.
C23_Witness ==
    /\ last.op = "get_relevant_identities"
    /\ last.seed_name = "Alice"
    /\ last.result # <<>>
    /\ \E k \in DOMAIN addrtree :
          /\ addrtree[k].seed_name = "Bob"
          /\ last.network_specs_key \in NetworksOf(addrtree, k)
    /\ \E k \in DOMAIN addrtree :
          /\ addrtree[k].seed_name = "Alice"
          /\ last.network_specs_key \notin NetworksOf(addrtree, k)

(***************************************************************************)
(* check_derivation_format                                                 *)
(***************************************************************************)
InvalidDerivation == [ok |-> FALSE, value |-> FALSE, err |-> "InvalidDerivation"]

OkBool(b) == [ok |-> TRUE, value |-> b, err |-> ""]

\* check_derivation_format
check_derivation_format(path) ==
    LET caps == REG_PATH_captures(path)
    IN  IF caps.matched THEN OkBool(caps.has_password) ELSE InvalidDerivation

(***************************************************************************)
(* The string helpers applied to derivation strings: every string of up to *)
(* MaxPathLen characters over a small alphabet, and the strings of the     *)
(* tests.                                                                  *)
(***************************************************************************)
MaxPathLen == 5

PathAlphabet == {"/", "a", "0", "1", "+"}

RECURSIVE StringsUpTo(_)
StringsUpTo(n) ==
    IF n = 0 THEN {<<>>}
    ELSE LET shorter == StringsUpTo(n - 1)
         IN  shorter \cup {Append(s, c) : s \in shorter, c \in PathAlphabet}

\* //a///b///c
PathPwdPwd == <<"/", "/", "a", "/", "/", "/", "b", "/", "/", "/", "c">>
\* //a//0001
PathLeadingZeros == <<"/", "/", "a", "/", "/", "0", "0", "0", "1">>
\* //a/b//c/d/e
PathSoftSoft ==
    <<"/", "/", "a", "/", "b", "/", "/", "c", "/", "d", "/", "e">>

TestStrings == {PathPwdPwd, PathLeadingZeros, PathSoftSoft}

StringInputs == StringsUpTo(MaxPathLen) \cup TestStrings

\* The string a helper is about to be called with.
StringInput(s) == [phase |-> "input", path |-> s]

\* What is recorded of a call of a string helper.
StringCall(op, path, result) == [op |-> op, path |-> path, result |-> result]

StringsInit ==
    /\ specstree = <<>>
    /\ addrtree = <<>>
    /\ history = <<>>
    /\ last = Call("init", "Ok", NoPublic, NoNetwork)
    /\ \E s \in StringInputs : pending = <<StringInput(s), Idle>>

CheckDerivationFormat ==
    /\ last' = StringCall("check_derivation_format", pending[1].path,
                          check_derivation_format(pending[1].path))
    /\ UNCHANGED <<specstree, addrtree, history, pending>>

(***************************************************************************)
(* suggest_path_name                                                       *)
(***************************************************************************)
\* sanitize_number
sanitize_number(could_be_number) ==
    LET number == parse_u32(could_be_number)
    IN  IF number.ok THEN to_string(number.value) ELSE could_be_number

\* The first place in s where pat starts, or 0.
Find(s, pat) ==
    LET at == {i \in 1..(Len(s) - Len(pat) + 1) :
                 SubSeq(s, i, i + Len(pat) - 1) = pat}
    IN  IF at = {} THEN 0 ELSE MinOf(at)

RECURSIVE Split(_, _)
\* str::split(pat): the pieces between the occurrences of pat, found from
\* the left without overlap.
Split(s, pat) ==
    LET i == Find(s, pat)
    IN  IF i = 0 THEN <<s>>
        ELSE <<SubSeq(s, 1, i - 1)>> \o Split(SubSeq(s, i + Len(pat), Len(s)), pat)

RECURSIVE Repeat(_, _)
\* str::repeat(n)
Repeat(s, n) == IF n = 0 THEN <<>> ELSE s \o Repeat(s, n - 1)

RECURSIVE TrimStart(_)
TrimStart(s) == IF s # <<>> /\ s[1] = " " THEN TrimStart(Tail(s)) ELSE s

RECURSIVE TrimEnd(_)
TrimEnd(s) ==
    IF s # <<>> /\ s[Len(s)] = " " THEN TrimEnd(SubSeq(s, 1, Len(s) - 1)) ELSE s

\* str::trim()
Trim(s) == TrimEnd(TrimStart(s))

RECURSIVE SoftLoop(_)
\* The loop over the soft components after the first: " (" and the component.
SoftLoop(softened) ==
    IF softened = <<>> THEN <<>>
    ELSE <<" ", "(">> \o sanitize_number(softened[1]) \o SoftLoop(Tail(softened))

\* What one pass of the loop over the hard tokens appends to output.
HardStep(hard) ==
    LET softened == Split(hard, <<"/">>)
        number_of_brackets == Len(softened) - 1
    IN  sanitize_number(softened[1]) \o SoftLoop(Tail(softened))
            \o (IF number_of_brackets = 0 THEN <<" ">>
                ELSE Repeat(<<")", " ">>, number_of_brackets))

RECURSIVE HardLoop(_)
HardLoop(hards) ==
    IF hards = <<>> THEN <<>> ELSE HardStep(hards[1]) \o HardLoop(Tail(hards))

\* suggest_path_name
suggest_path_name(path_all) ==
    LET caps == REG_PATH_captures(path_all)
    IN  Trim(IF caps.matched /\ caps.path # <<>>
             THEN HardLoop(Split(caps.path, <<"/", "/">>))
             ELSE <<>>)

SuggestPathName ==
    /\ last' = StringCall("suggest_path_name", pending[1].path,
                          suggest_path_name(pending[1].path))
    /\ UNCHANGED <<specstree, addrtree, history, pending>>

StringsNext ==
    \/ CheckDerivationFormat
    \/ SuggestPathName

SpecStrings == StringsInit /\ [][StringsNext]_vars

(***************************************************************************)
(* C24  check_derivation_format is total: every string either fails with   *)
(* InvalidDerivation or is parsed into a path made of segments of one or   *)
(* two slashes followed by non-slash characters and a password that is     *)
(* absent or non-empty, and true is returned exactly when there is a       *)
(* password.  The password is what follows the first ///.  "" gives false, *)
(* // and /// are errors, //// gives true, //a///b///c has password b///c. *)
(***************************************************************************)
TripleSlash == <<"/", "/", "/">>

\* s is made of segments of one or two slashes and one or more non-slash
\* characters: it is empty, or starts with a slash, does not end with one and
\* has no three slashes in a row.
IsPath(s) ==
    \/ s = <<>>
    \/ /\ s[1] = "/"
       /\ s[Len(s)] # "/"
       /\ Find(s, TripleSlash) = 0

\* The reading of s the claim describes: the path before the first /// and
\* the password after it.
FirstSplit(s) ==
    LET i == Find(s, TripleSlash)
    IN  IF i = 0
        THEN [path |-> s, has_password |-> FALSE, password |-> <<>>]
        ELSE [path |-> SubSeq(s, 1, i - 1), has_password |-> TRUE,
              password |-> SubSeq(s, i + 3, Len(s))]

C24_CheckDerivationFormat ==
    last.op = "check_derivation_format"
    => LET s == last.path
           parse == FirstSplit(s)
           caps == REG_PATH_captures(s)
       IN  /\ last.result \in {InvalidDerivation, OkBool(TRUE), OkBool(FALSE)}
           /\ last.result.ok
                 <=> IsPath(parse.path) /\ (parse.has_password => parse.password # <<>>)
           /\ last.result.ok
                 => /\ last.result.value = parse.has_password
                    /\ caps.matched
                    /\ caps.path = parse.path
                    /\ caps.has_password = parse.has_password
                    /\ caps.password = parse.password
           /\ s = <<>> => last.result = OkBool(FALSE)
           /\ s = <<"/", "/">> => last.result = InvalidDerivation
           /\ s = TripleSlash => last.result = InvalidDerivation
           /\ s = <<"/", "/", "/", "/">> => last.result = OkBool(TRUE)
           /\ s = PathPwdPwd
                 => /\ last.result = OkBool(TRUE)
                    /\ caps.password = <<"b", "/", "/", "/", "c">>

\* The string //a///b///c was checked.
C24_Witness ==
    /\ last.op = "check_derivation_format"
    /\ last.path = PathPwdPwd
    /\ last.result = OkBool(TRUE)

(***************************************************************************)
(* C25  suggest_path_name(path) builds the label from the path without the *)
(* password: the labels of the hard tokens (the pieces between //) joined  *)
(* by single spaces; in a hard token the first component is a word and     *)
(* each further soft component is added as " (component", with as many     *)
(* closing parentheses as soft components; a component made of digits only *)
(* loses its leading zeros, any other component is kept as it is; the      *)
(* result is trimmed; an empty path or a password alone gives "".          *)
(***************************************************************************)
\* A component as the label shows it.
Word(component) ==
    IF component # <<>> /\ \A i \in 1..Len(component) : component[i] \in Digits
    THEN StripZeros(component)
    ELSE component

RECURSIVE SoftWords(_)
SoftWords(components) ==
    IF components = <<>> THEN <<>>
    ELSE <<"(">> \o Word(components[1]) \o SoftWords(Tail(components))

\* The label of one hard token, spaces left out.
TokenLabel(hard) ==
    LET components == Split(hard, <<"/">>)
    IN  Word(components[1]) \o SoftWords(Tail(components))
            \o Repeat(<<")">>, Len(components) - 1)

RECURSIVE TokenLabels(_)
TokenLabels(hards) ==
    IF hards = <<>> THEN <<>> ELSE TokenLabel(hards[1]) \o TokenLabels(Tail(hards))

WithoutSpaces(s) == SelectSeq(s, LAMBDA c : c # " ")

C25_SuggestPathName ==
    last.op = "suggest_path_name"
    => LET parse == FirstSplit(last.path)
       IN  (IsPath(parse.path) /\ (parse.has_password => parse.password # <<>>))
           => /\ parse.path = <<>> => last.result = <<>>
              /\ last.result = Trim(last.result)
              /\ Find(last.result, <<" ", " ">>) = 0
              /\ WithoutSpaces(last.result)
                    = TokenLabels(Split(parse.path, <<"/", "/">>))

(***************************************************************************)
(* guess                                                                   *)
(***************************************************************************)
\* Upper bound on the number of words guess returns.
MAX_WORDS_DISPLAY == 8

\* Characters in the order of their codes: the space, the letters, and one
\* character after the letters.
CharOrder == <<" ", "a", "b", "c", "d", "e", "f", "g", "h", "i", "j", "k", "l", "m", "n", "o", "p", "q", "r", "s", "t", "u", "v", "w", "x", "y", "z", "~">>

CharCode(c) == CHOOSE i \in 1..Len(CharOrder) : CharOrder[i] = c

RECURSIVE StrLess(_, _)
\* The order of str: a sorts before b.
StrLess(a, b) ==
    IF b = <<>> THEN FALSE
    ELSE IF a = <<>> THEN TRUE
    ELSE IF a[1] # b[1] THEN CharCode(a[1]) < CharCode(b[1])
    ELSE StrLess(Tail(a), Tail(b))

\* Language::English.wordlist(): an excerpt of the list, in its order.
Wordlist ==
    <<<<"a", "b", "a", "n", "d", "o", "n">>,
      <<"a", "b", "i", "l", "i", "t", "y">>,
      <<"a", "b", "l", "e">>,
      <<"a", "b", "o", "u", "t">>,
      <<"a", "b", "o", "v", "e">>,
      <<"a", "b", "s", "e", "n", "t">>,
      <<"a", "b", "s", "o", "r", "b">>,
      <<"a", "b", "s", "t", "r", "a", "c", "t">>,
      <<"a", "b", "s", "u", "r", "d">>,
      <<"a", "b", "u", "s", "e">>,
      <<"d", "r", "a", "m", "a">>,
      <<"d", "r", "a", "s", "t", "i", "c">>,
      <<"d", "r", "a", "w">>,
      <<"d", "r", "e", "a", "m">>,
      <<"d", "r", "e", "s", "s">>,
      <<"d", "r", "i", "f", "t">>,
      <<"d", "r", "i", "l", "l">>,
      <<"d", "r", "i", "n", "k">>,
      <<"d", "r", "i", "p">>,
      <<"d", "r", "i", "v", "e">>,
      <<"d", "r", "o", "p">>,
      <<"d", "r", "u", "m">>,
      <<"d", "r", "y">>,
      <<"s", "a", "d">>,
      <<"s", "a", "d", "d", "l", "e">>,
      <<"s", "a", "d", "n", "e", "s", "s">>,
      <<"s", "a", "f", "e">>,
      <<"s", "a", "i", "l">>,
      <<"s", "a", "l", "a", "d">>,
      <<"s", "a", "l", "m", "o", "n">>,
      <<"s", "a", "l", "o", "n">>,
      <<"s", "a", "l", "t">>,
      <<"s", "a", "l", "u", "t", "e">>,
      <<"s", "e", "a">>,
      <<"s", "e", "a", "r", "c", "h">>,
      <<"s", "e", "a", "s", "o", "n">>,
      <<"s", "e", "a", "t">>,
      <<"s", "e", "c", "o", "n", "d">>,
      <<"s", "e", "c", "r", "e", "t">>,
      <<"s", "e", "c", "t", "i", "o", "n">>,
      <<"s", "e", "c", "u", "r", "i", "t", "y">>,
      <<"s", "e", "e", "d">>,
      <<"s", "e", "e", "k">>,
      <<"s", "e", "n", "i", "o", "r">>,
      <<"s", "e", "n", "s", "e">>,
      <<"s", "e", "n", "t", "e", "n", "c", "e">>,
      <<"s", "e", "r", "i", "e", "s">>,
      <<"u", "m", "b", "r", "e", "l", "l", "a">>,
      <<"u", "n", "a", "b", "l", "e">>>>

\* WordList::get_words_by_prefix: a binary search for the place of the prefix
\* in the sorted list, then the words taken while they start with it.
get_words_by_prefix(dictionary, prefix) ==
    LET start == 1 + Cardinality({i \in 1..Len(dictionary) :
                                    StrLess(dictionary[i], prefix)})
        count == Cardinality({i \in start..Len(dictionary) :
                                \A j \in start..i : StartsWith(dictionary[j], prefix)})
    IN  SubSeq(dictionary, start, start + count - 1)

\* guess returning every word found.
guess_NoLimit(word_part) == get_words_by_prefix(Wordlist, word_part)

\* guess; the result is the list that export_plain_vector prints.
guess(word_part) ==
    LET words == get_words_by_prefix(Wordlist, word_part)
    IN  IF Len(words) > MAX_WORDS_DISPLAY
        THEN SubSeq(words, 1, MAX_WORDS_DISPLAY)
        ELSE words

MaxPrefixLen == 3

PrefixAlphabet == {"a", "b", "d", "e", "i", "n", "r", "s", " ", "~"}

RECURSIVE PrefixesUpTo(_)
PrefixesUpTo(n) ==
    IF n = 0 THEN {<<>>}
    ELSE LET shorter == PrefixesUpTo(n - 1)
         IN  shorter \cup {Append(s, c) : s \in shorter, c \in PrefixAlphabet}

WordUmbra == <<"u", "m", "b", "r", "a">>

WordParts == PrefixesUpTo(MaxPrefixLen) \cup {WordUmbra}

GuessInit ==
    /\ specstree = <<>>
    /\ addrtree = <<>>
    /\ history = <<>>
    /\ last = Call("init", "Ok", NoPublic, NoNetwork)
    /\ \E word_part \in WordParts :
          pending = <<[phase |-> "input", word_part |-> word_part], Idle>>

Guess ==
    /\ last' = [op |-> "guess", word_part |-> pending[1].word_part,
                result |-> guess(pending[1].word_part)]
    /\ UNCHANGED <<specstree, addrtree, history, pending>>

GuessNext == Guess

SpecGuess == GuessInit /\ [][GuessNext]_vars

(***************************************************************************)
(* C26  guess(prefix) returns, in the order of the wordlist, the first     *)
(* min(MAX_WORDS_DISPLAY, m) of the m words that start with prefix: every  *)
(* word returned has the prefix, no earlier word with the prefix is left   *)
(* out, nothing is returned when no word has it, and the empty prefix      *)
(* gives the first MAX_WORDS_DISPLAY words of the list.                    *)
(***************************************************************************)
\* The words of the list that start with prefix, in the order of the list.
WordsWithPrefix(prefix) == SelectSeq(Wordlist, LAMBDA w : StartsWith(w, prefix))

C26_Guess ==
    last.op = "guess"
    => LET matching == WordsWithPrefix(last.word_part)
           n == IF Len(matching) < MAX_WORDS_DISPLAY THEN Len(matching)
                ELSE MAX_WORDS_DISPLAY
       IN  /\ last.result = SubSeq(matching, 1, n)
           /\ \A i \in 1..Len(last.result) : StartsWith(last.result[i], last.word_part)
           /\ matching = <<>> => last.result = <<>>
           /\ last.word_part = <<>>
                 => last.result = SubSeq(Wordlist, 1, MAX_WORDS_DISPLAY)
           /\ last.word_part = <<"d", "r", "i">>
                 => last.result = <<<<"d", "r", "i", "f", "t">>, <<"d", "r", "i", "l", "l">>,
                                    <<"d", "r", "i", "n", "k">>, <<"d", "r", "i", "p">>,
                                    <<"d", "r", "i", "v", "e">>>>
           /\ last.word_part = WordUmbra => last.result = <<>>

\* A prefix with more than MAX_WORDS_DISPLAY words, in the middle of the list.
C26_Witness ==
    /\ last.op = "guess"
    /\ last.word_part = <<"s">>
    /\ Len(last.result) = MAX_WORDS_DISPLAY
    /\ Len(WordsWithPrefix(last.word_part)) > MAX_WORDS_DISPLAY
    /\ last.result[1] = <<"s", "a", "d">>

(***************************************************************************)
(* One top-level call in progress: create_address is called again and      *)
(* again on the staged list and the event list it returned before, as      *)
(* populate_addresses does, against an ADDRTREE that does not change.      *)
(***************************************************************************)
MaxStaged == 2

StagedSeedObjects ==
    {[seed_name |-> "Alice", seed_phrase |-> SEED, encryption |-> e] :
        e \in {"Ed25519", "Sr25519"}}

StagedPaths == {<<>>, PathA, PathEmptySegment}

\* The lists the call in progress holds.
StagedLists(batch_prep, events) ==
    [phase |-> "staging", batch_prep |-> batch_prep, events |-> events]

\* What is recorded of one create_address call.
CreateAddressCall(input_batch_prep, input_events, path, network_specs, seed_object, specs_encryption_skip, result) ==
    [op |-> "create_address", input_batch_prep |-> input_batch_prep,
     input_events |-> input_events, path |-> path, network_specs |-> network_specs,
     seed_object |-> seed_object, specs_encryption_skip |-> specs_encryption_skip,
     result |-> result]

StagedInit ==
    /\ specstree \in SpecsConfigs
    /\ addrtree \in {<<>>, TwoSeeds(specstree)}
    /\ history = <<>>
    /\ last = Call("init", "Ok", NoPublic, NoNetwork)
    /\ pending = <<StagedLists(<<>>, <<>>), Idle>>

\* A create_address call; the caller keeps the lists it returns, or the ones
\* it had when the call fails.
StagedCreateAddress ==
    /\ Len(pending[1].events) < MaxStaged
    /\ \E path \in StagedPaths, network_specs_key \in DOMAIN specstree,
          seed_object \in StagedSeedObjects, specs_encryption_skip \in BOOLEAN :
          \E r \in {create_address(addrtree, pending[1].batch_prep, pending[1].events,
                                  path, specstree[network_specs_key], seed_object,
                                  FALSE, specs_encryption_skip)} :
              /\ last' = CreateAddressCall(pending[1].batch_prep, pending[1].events,
                                           path, specstree[network_specs_key],
                                           seed_object, specs_encryption_skip, r)
              /\ pending' = IF r.ok
                            THEN [pending EXCEPT ![1] =
                                     StagedLists(r.batch_prep, r.events)]
                            ELSE pending
    /\ UNCHANGED <<specstree, addrtree, history>>

StagedNext == StagedCreateAddress

SpecStaged == StagedInit /\ [][StagedNext]_vars

\* The network key of the network a recorded create_address call was given.
CallNetworkKey(call) ==
    NetworkSpecsKey_from_parts(call.network_specs.genesis_hash,
                               call.network_specs.encryption)

\* The address key a recorded create_address call derives.
CallAddressKey(call) ==
    DerivedKey(call.seed_object.seed_phrase, call.path, call.seed_object.encryption)

\* The call derived a key: the schemes agree and the secret string is valid.
CallDerived(call) ==
    /\ call.network_specs.encryption = call.seed_object.encryption
    /\ Pair_from_string(call.seed_object.seed_phrase, call.path,
                        call.seed_object.encryption).ok

(***************************************************************************)
(* C27  When the staged list given to create_address already holds an      *)
(* entry for the derived key whose network_id includes the network, the    *)
(* call returns the staged list as it was given, whatever ADDRTREE holds   *)
(* for the key.                                                            *)
(***************************************************************************)
C27_StagedNetworkPresent ==
    ( /\ last.op = "create_address"
      /\ CallDerived(last)
      /\ \E i \in 1..Len(last.input_batch_prep) :
            /\ last.input_batch_prep[i][1] = CallAddressKey(last)
            /\ Contains(last.input_batch_prep[i][2].network_id, CallNetworkKey(last)) )
    => /\ last.result.ok
       /\ last.result.batch_prep = last.input_batch_prep

(***************************************************************************)
(* C28  When the scheme of the network differs from the scheme of the seed *)
(* object, create_address derives nothing: with the skip flag set it       *)
(* returns the staged list and the event list exactly as given, with the   *)
(* flag clear it fails with EncryptionMismatch; no event is added and no   *)
(* entry is staged in either case.                                         *)
(***************************************************************************)
C28_SchemeMismatch ==
    ( /\ last.op = "create_address"
      /\ last.network_specs.encryption # last.seed_object.encryption )
    => /\ IF last.specs_encryption_skip
          THEN last.result = Staged(last.input_batch_prep, last.input_events)
          ELSE last.result = Failed("EncryptionMismatch")
       /\ pending[1].batch_prep = last.input_batch_prep
       /\ pending[1].events = last.input_events

\* On lists that are not empty, the malformed path // under a network of
\* another scheme is skipped: nothing was derived.
C28_Witness ==
    /\ last.op = "create_address"
    /\ last.network_specs.encryption # last.seed_object.encryption
    /\ last.input_batch_prep # <<>>
    /\ last.input_events # <<>>
    /\ last.path = PathEmptySegment
    /\ last.specs_encryption_skip
    /\ last.result.ok

(***************************************************************************)
(* Sessions of bulk populates: try_create_seed is called with phrases that *)
(* are valid or not, over SPECSTREE contents one of which has a network    *)
(* with a malformed default path.                                          *)
(***************************************************************************)
MaxPopulate == 2

\* A network whose default derivation path // is malformed.
NetBadPath == NetworkSpecs_of("badpath", 1, "Sr25519", PathEmptySegment)

PopulateConfigs == TracedConfigs \cup {SpecsTreeOf({NetBadPath, NetWestend, NetEd})}

PopulateSeeds == TracedSeeds \cup {[seed_name |-> "Alice", seed_phrase |-> BadPhrase]}

\* What is recorded of a try_create_seed call.
SeedCall(seed_name, seed_phrase, prepared, result) ==
    [op |-> "try_create_seed", seed_name |-> seed_name, seed_phrase |-> seed_phrase,
     staged |-> prepared.ok, events |-> prepared.events, result |-> result]

PopulateInit ==
    /\ specstree \in PopulateConfigs
    /\ addrtree \in {<<>>, TwoSeeds(specstree), TwoSeedsDerived(specstree)}
    /\ history = <<>>
    /\ last = Call("init", "Ok", NoPublic, NoNetwork)
    /\ pending = [c \in Callers |-> Idle]

PopulateTryCreateSeed ==
    /\ Len(history) < MaxPopulate
    /\ \E seed \in PopulateSeeds, apply_ok \in BOOLEAN :
          \E prepared \in {addresses_three_encryptions(addrtree, specstree,
                                                       seed.seed_name, seed.seed_phrase)} :
          \E r \in {try_create_seed(addrtree, history, specstree, seed.seed_name,
                                   seed.seed_phrase, apply_ok)} :
              /\ addrtree' = r.addrtree
              /\ history' = r.history
              /\ last' = SeedCall(seed.seed_name, seed.seed_phrase, prepared, r.result)
    /\ UNCHANGED <<specstree, pending>>

PopulateNext == PopulateTryCreateSeed

SpecPopulate == PopulateInit /\ [][PopulateNext]_vars

(***************************************************************************)
(* C29  In a bulk populate the failure of the default-path derivation of a *)
(* network is swallowed: no event and no record come of it, the lists stay *)
(* as the root derivation left them, the networks after it are still       *)
(* processed and the operation commits.  The failure of a root derivation  *)
(* aborts the operation, and nothing is written.                           *)
(***************************************************************************)
\* The default-path derivation of network n fails for the phrase: the path is
\* no valid secret string, or its key is stored under another path.
DefaultFails(tree, seed_phrase, n) ==
    LET pair == Pair_from_string(seed_phrase, specstree[n].path_id, n.encryption)
        key  == AddressKey_from_multisigner(n.encryption, pair.public)
    IN  \/ ~pair.ok
        \/ key \in DOMAIN tree /\ tree[key].path # specstree[n].path_id

C29_DefaultFailureSwallowed ==
    [][ last'.op = "try_create_seed"
        => LET seed == [seed_name |-> last'.seed_name, seed_phrase |-> last'.seed_phrase]
               events == last'.events
           IN  IF Mnemonic_validate(seed.seed_phrase)
               THEN /\ last'.staged
                    /\ last'.result # "Ok" => addrtree' = addrtree /\ history' = history
                    /\ last'.result = "Ok" => history' = Append(history, events)
                    /\ \A n \in DOMAIN specstree :
                          /\ EventsOfNetwork(events, n) # {}
                          /\ <<events[MinOf(EventsOfNetwork(events, n))]>>
                                = DerivationEntry(seed, <<>>, n)
                          /\ DefaultFails(addrtree, seed.seed_phrase, n)
                                => /\ Cardinality(EventsOfNetwork(events, n)) = 1
                                   /\ LET pair == Pair_from_string(seed.seed_phrase,
                                                                   specstree[n].path_id,
                                                                   n.encryption)
                                          key  == AddressKey_from_multisigner(n.encryption,
                                                                              pair.public)
                                      IN  pair.ok /\ last'.result = "Ok"
                                             => addrtree'[key] = addrtree[key]
               ELSE /\ ~last'.staged
                    /\ last'.result = "SecretString"
                    /\ addrtree' = addrtree
                    /\ history' = history ]_vars

\* A committed populate in which the default path of one network did not
\* derive, while a later network of the same scheme has both its events.
C29_Witness ==
    /\ last.op = "try_create_seed"
    /\ last.result = "Ok"
    /\ \E n, m \in DOMAIN specstree :
          /\ ~Pair_from_string(last.seed_phrase, specstree[n].path_id, n.encryption).ok
          /\ n.encryption = m.encryption
          /\ SpecsKeyLess(n, m)
          /\ Cardinality(EventsOfNetwork(last.events, n)) = 1
          /\ Cardinality(EventsOfNetwork(last.events, m)) = 2
          /\ LastEntry(history) = last.events

(***************************************************************************)
(* C30  Starting from an ADDRTREE whose records all have a non-empty       *)
(* network_id, after any sequence of derivations, bulk populates, deletes  *)
(* and removals by seed no stored record has an empty network_id, and as   *)
(* long as a record exists no operation changes its seed_name, path,       *)
(* has_pwd or scheme: only its network_id changes.                         *)
(***************************************************************************)
NoEmptyNetworkId == \A k \in DOMAIN addrtree : addrtree[k].network_id # <<>>

\* The records that exist before and after a step keep everything but
\* network_id.
RecordsKeepIdentity ==
    \A k \in DOMAIN addrtree \cap DOMAIN addrtree' :
        /\ addrtree'[k].seed_name = addrtree[k].seed_name
        /\ addrtree'[k].path = addrtree[k].path
        /\ addrtree'[k].has_pwd = addrtree[k].has_pwd
        /\ addrtree'[k].encryption = addrtree[k].encryption

C30_RecordLifecycle == [] NoEmptyNetworkId /\ [][RecordsKeepIdentity]_vars

\* The Sr25519 root record, created in two networks, has lost one of them
\* to a delete_address and is still there with the other.
C30_Witness ==
    /\ last.op = "delete_address"
    /\ last.result = "Ok"
    /\ LastDeleteKey(last) = AddressKey_from_multisigner("Sr25519", RootPublic)
    /\ last.network_specs_key = KeyOfPolkadot
    /\ LastDeleteKey(last) \in DOMAIN addrtree
    /\ addrtree[LastDeleteKey(last)].network_id = <<KeyOfWestend>>

(***************************************************************************)
(* The test database: generate_test_identities                             *)
(***************************************************************************)
\* Cap on the number of calls that write a history entry.
MaxGenerate == 2

NetRococo == NetworkSpecs_of("rococo", 4, "Sr25519", <<"/", "/", "r">>)

\* defaults::get_default_chainspecs(): the networks a fresh database is
\* loaded with.
get_default_chainspecs == <<NetPolkadot, NetRococo, NetWestend>>

PathAlice      == <<"/", "/", "A", "l", "i", "c", "e">>
PathAliceLower == <<"/", "/", "a", "l", "i", "c", "e">>

Event_IdentitiesWiped == [event |-> "identities_wiped", payload |-> <<>>]

alice_seed_object ==
    [seed_name |-> "Alice", seed_phrase |-> SEED, encryption |-> "Sr25519"]

RECURSIVE ClearLoop(_, _)
ClearLoop(K, batch) ==
    IF K = {} THEN batch
    ELSE LET k == CHOOSE x \in K : TRUE
         IN  ClearLoop(K \ {k}, Batch_remove(batch, k))

\* helpers::make_batch_clear_tree: a batch that removes every key of the tree.
make_batch_clear_tree(database) == ClearLoop(DOMAIN database, Batch_default)

\* One of the two derivations in the loop over the default networks: made
\* when the network has the given name and is an Sr25519 one, with an empty
\* staged list and the events so far; its adds go into the batch.
TestDerivation(database, network_specs, name, path, prepared) ==
    IF ~prepared.ok
       \/ ~(network_specs.name = name /\ network_specs.encryption = "Sr25519")
    THEN prepared
    ELSE Only({IF ~r.ok THEN NotPrepared(r.err)
               ELSE Prepared(upd_id_batch(prepared.batch, r.batch_prep), r.events)
               : r \in {create_address(database, <<>>, prepared.events, path,
                                       network_specs, alice_seed_object, FALSE, FALSE)}})

RECURSIVE TestDerivationsLoop(_, _, _)
\* for network_specs in get_default_chainspecs().iter(): //Alice on westend,
\* //alice on rococo.
TestDerivationsLoop(database, chainspecs, prepared) ==
    IF chainspecs = <<>> THEN prepared
    ELSE Only({TestDerivationsLoop(database, Tail(chainspecs), rococo) :
               rococo \in {Only({TestDerivation(database, chainspecs[1], "rococo",
                                                PathAliceLower, westend) :
                                 westend \in {TestDerivation(database, chainspecs[1],
                                                             "westend", PathAlice,
                                                             prepared)}})}})

\* generate_test_identities up to the commit: the batch starts with the
\* removal of every key, the events with IdentitiesWiped; the derivations
\* read the database as it is, nothing having been written yet.
prepare_test_identities(database, specs) ==
    Only({IF ~populated.ok THEN NotPrepared(populated.err)
          ELSE TestDerivationsLoop(database, get_default_chainspecs,
                                   Prepared(populated.batch,
                                            <<Event_IdentitiesWiped>> \o populated.events))
          : populated \in {populate_addresses(database, specs,
                                              make_batch_clear_tree(database),
                                              alice_seed_object)}})

\* generate_test_identities
generate_test_identities(database, hist, specs, apply_ok) ==
    Only({Commit(database, hist, prepared, apply_ok) :
          prepared \in {prepare_test_identities(database, specs)}})

(***************************************************************************)
(* Sessions on the test database: it is generated, addresses are derived   *)
(* and deleted, and it is generated again.                                 *)
(***************************************************************************)
\* SPECSTREE contents: the default networks, with or without an Ed25519 one.
GenerateConfigs ==
    {SpecsTreeOf({NetPolkadot, NetRococo, NetWestend}),
     SpecsTreeOf({NetRococo, NetWestend, NetEd})}

GenerateInit ==
    /\ specstree \in GenerateConfigs
    /\ addrtree \in {<<>>, TwoSeeds(specstree)}
    /\ history = <<>>
    /\ last = Call("init", "Ok", NoPublic, NoNetwork)
    /\ pending = [c \in Callers |-> Idle]

GenerateTestIdentities ==
    /\ Len(history) < MaxGenerate
    /\ \E apply_ok \in BOOLEAN :
          \E r \in {generate_test_identities(addrtree, history, specstree, apply_ok)} :
              /\ addrtree' = r.addrtree
              /\ history' = r.history
              /\ last' = Call("generate_test_identities", r.result, NoPublic, NoNetwork)
    /\ UNCHANGED <<specstree, pending>>

GenerateTryCreateAddress == TryCreateAddressOn({PathA, PathAlice}, {FALSE}, MaxGenerate)

GenerateDeleteAddress ==
    /\ Len(history) < MaxGenerate
    /\ \E public_key \in {k.public_key : k \in DOMAIN addrtree},
          network_specs_key \in DOMAIN specstree, apply_ok \in BOOLEAN :
          \E r \in {delete_address(addrtree, history, specstree, public_key,
                                  network_specs_key, apply_ok)} :
              /\ addrtree' = r.addrtree
              /\ history' = r.history
              /\ last' = Call("delete_address", r.result, NoPublic, NoNetwork)
    /\ UNCHANGED <<specstree, pending>>

GenerateNext ==
    \/ GenerateTestIdentities
    \/ GenerateTryCreateAddress
    \/ GenerateDeleteAddress

SpecGenerate == GenerateInit /\ [][GenerateNext]_vars

(***************************************************************************)
(* C31  After generate_test_identities succeeds ADDRTREE holds Alice's     *)
(* root record under every Sr25519 network of SPECSTREE, the default-path  *)
(* record of each of them, the //Alice record on westend and the //alice   *)
(* record on rococo, whatever ADDRTREE held before the call; a second call *)
(* right after a first leaves ADDRTREE as the first left it.               *)
(***************************************************************************)
\* The (derivation path, network) pairs the test database is to hold.
TestIdentities(specs) ==
    UNION {{<<p, NetworkSpecsKey_from_parts(n.genesis_hash, n.encryption)>> :
                p \in {<<>>, n.path_id}} :
           n \in {specs[k] : k \in {x \in DOMAIN specs : x.encryption = "Sr25519"}}}
    \cup {<<PathAlice, NetworkSpecsKey_from_parts(NetWestend.genesis_hash, "Sr25519")>>,
          <<PathAliceLower, NetworkSpecsKey_from_parts(NetRococo.genesis_hash, "Sr25519")>>}

\* The tree has Alice's record of the path with the network in it.
HoldsIdentity(tree, path, network_specs_key) ==
    LET k == AddressKey_from_multisigner("Sr25519",
                 Pair_from_string(SEED, path, "Sr25519").public)
    IN  /\ k \in DOMAIN tree
        /\ tree[k].seed_name = "Alice"
        /\ tree[k].path = CroppedPath(path)
        /\ Contains(tree[k].network_id, network_specs_key)

GeneratedOk(call) == call.op = "generate_test_identities" /\ call.result = "Ok"

C31_TestIdentitiesGenerated ==
    [][/\ GeneratedOk(last') =>
            \A id \in TestIdentities(specstree) : HoldsIdentity(addrtree', id[1], id[2])
       /\ GeneratedOk(last) /\ GeneratedOk(last') => addrtree' = addrtree]_vars

\* The same on a database that holds no address when the call is made.
C31_FromEmpty ==
    [][addrtree = <<>> /\ GeneratedOk(last') =>
            \A id \in TestIdentities(specstree) : HoldsIdentity(addrtree', id[1], id[2])]_vars

(***************************************************************************)
(* C32  For every IdentityAdded event written by a successful create       *)
(* operation, the ADDRTREE committed with it holds a record for the        *)
(* event's public key and scheme whose seed_name and path are those of the *)
(* event and whose network_id contains the network of the event's genesis  *)
(* hash.                                                                   *)
(***************************************************************************)
\* The tree holds the record the IdentityAdded event tells of.
EventRecorded(tree, e) ==
    /\ EventKey(e) \in DOMAIN tree
    /\ tree[EventKey(e)].seed_name = e.payload.seed_name
    /\ tree[EventKey(e)].path = e.payload.path
    /\ EventNetwork(e) \in NetworksOf(tree, EventKey(e))

\* The step is a create operation that succeeded and wrote a history entry.
CreateCommitted ==
    /\ last'.op \in CreationApis
    /\ last'.result = "Ok"
    /\ Len(history') = Len(history) + 1

C32_EventsHaveRecords ==
    [][CreateCommitted =>
          \A i \in 1..Len(LastEntry(history')) :
              LastEntry(history')[i].event = "identity_added"
                  => EventRecorded(addrtree', LastEntry(history')[i])]_vars

(***************************************************************************)
(* C33  try_create_address never fails with EncryptionMismatch: it derives *)
(* with the scheme of the network its network key names, so every record   *)
(* it stages or creates has the scheme of that network.                    *)
(***************************************************************************)
C33_NoEncryptionMismatch ==
    [][ LET call == pending'[1].op
            n    == call.network_specs_key
        IN  call.name = "try_create_address"
            => /\ pending'[1].staged # "EncryptionMismatch"
               /\ pending'[1].result # "EncryptionMismatch"
               /\ \A i \in 1..Len(pending'[1].batch) :
                     /\ pending'[1].batch[i].key.encryption = n.encryption
                     /\ pending'[1].batch[i].value.encryption = n.encryption
               /\ \A k \in DOMAIN addrtree' \ DOMAIN addrtree :
                     /\ k.encryption = n.encryption
                     /\ addrtree'[k].encryption = n.encryption ]_vars

\* A try_create_address under an Ed25519 network has created its record
\* while the seed's other records are Sr25519 ones too.
C33_Witness ==
    /\ TheCall.name = "try_create_address"
    /\ TheCall.network_specs_key.encryption = "Ed25519"
    /\ pending[1].result = "Ok"
    /\ Len(pending[1].batch) = 1
    /\ TheCallKey(TheCall) \in DOMAIN addrtree
    /\ addrtree[TheCallKey(TheCall)].encryption = "Ed25519"
    /\ addrtree[TheCallKey(TheCall)].network_id = <<TheCall.network_specs_key>>
    /\ \E k \in DOMAIN addrtree : k.encryption = "Sr25519"

====
